---------------------------- MODULE Spec2Model ----------------------------
(***************************************************************************)
(* A model of mockall_derive's #[automock] engine                          *)
(* (src/mockall_derive/src/automock.rs).                                   *)
(*                                                                         *)
(* The engine is a function from two token streams to a token stream; its  *)
(* only other effect is the list of diagnostics it emits through           *)
(* compile_error.  The state is the invocation under way: the parsed       *)
(* configuration, the argument, the value returned, the diagnostics        *)
(* emitted so far, the Mock handed to the builder and whether the call     *)
(* returned or panicked.                                                   *)
(*                                                                         *)
(* The module that mock_foreign and mock_module emit is run, too: the      *)
(* threads of a test process that call its functions, and the mutex of     *)
(* each expectation store.                                                 *)
(*                                                                         *)
(* syn values are records tagged by a "kind" field that carries the name   *)
(* of the syn enum variant.  Spans and punctuation tokens are left out.    *)
(***************************************************************************)
EXTENDS Naturals, Sequences, FiniteSets, TLC

VARIABLES
    pc,      \* "start" before the call, "returned" or "panicked" after it
    attrs,   \* the Attrs value in use (Attrs.attrs and Attrs.modname)
    input,   \* the argument of the function called
    output,  \* the value the function returned
    diags,   \* messages emitted through compile_error, oldest first
    mock,    \* the Mock whose gen() was called, or NoMock
    mutex,   \* the Mutex of each expectation store of the emitted module
    threads  \* the threads that run the emitted module

vars == <<pc, attrs, input, output, diags, mock, mutex, threads>>

(***************************************************************************)
(* Bounds of the model.                                                    *)
(***************************************************************************)
\* longest generic parameter list
MaxParams == 2
\* longest use-site argument list
MaxArgs == 2
\* nesting depth of compound type expressions
MaxDepth == 1
\* longest list of trait / impl / module / extern items
MaxItems == 2
\* longest sequence of attribute directives
MaxAttrs == 2

(***************************************************************************)
(* Sequences helpers.                                                      *)
(***************************************************************************)
SeqsUpTo(S, n) == UNION {[1..k -> S] : k \in 0..n}

Range(s) == {s[i] : i \in DOMAIN s}

InjSeqsUpTo(S, n) == {s \in SeqsUpTo(S, n) : \A i, j \in DOMAIN s : s[i] = s[j] => i = j}

RECURSIVE Flatten(_)
Flatten(ss) == IF ss = <<>> THEN <<>> ELSE Head(ss) \o Flatten(Tail(ss))

(***************************************************************************)
(* syn::Path, syn::PathArguments, syn::Type constructors.                  *)
(***************************************************************************)
PathArgumentsNone == [kind |-> "None"]

AngleBracketed(args) == [kind |-> "AngleBracketed", args |-> args]

Parenthesized(inputs) == [kind |-> "Parenthesized", inputs |-> inputs]

Segment(ident, arguments) == [ident |-> ident, arguments |-> arguments]

Path(leading_colon, segments) == [leading_colon |-> leading_colon, segments |-> segments]

IdentPath(ident) == Path(FALSE, <<Segment(ident, PathArgumentsNone)>>)

Path2(a, b) == Path(FALSE, <<Segment(a, PathArgumentsNone), Segment(b, PathArgumentsNone)>>)

TypePath(qself, path) == [kind |-> "Path", qself |-> qself, path |-> path]

TypeElem(kind, elem) == [kind |-> kind, elem |-> elem]

TypeTuple(elems) == [kind |-> "Tuple", elems |-> elems]

ReturnDefault == [kind |-> "Default"]

TypeBareFn(inputs, out) == [kind |-> "BareFn", inputs |-> inputs, output |-> out]

TypeBounds(kind, bounds) == [kind |-> kind, bounds |-> bounds]

BoundTrait(path) == [kind |-> "Trait", path |-> path]

BoundLifetime(lt) == [kind |-> "Lifetime", lifetime |-> lt]

TypeLeaf(kind) == [kind |-> kind]

ArgType(ty) == [kind |-> "Type", ty |-> ty]

ArgLifetime(lt) == [kind |-> "Lifetime", lifetime |-> lt]

ArgOther(kind) == [kind |-> kind]

(***************************************************************************)
(* compile_error(span, msg): attaches one message to the invocation and    *)
(* returns to its caller, which carries on.                                *)
(***************************************************************************)
compile_error(ds, msg) == Append(ds, msg)

(***************************************************************************)
(* syn::Path::is_ident, as filter_generics uses it.                        *)
(***************************************************************************)
is_ident(path, ident) ==
    /\ ~path.leading_colon
    /\ Len(path.segments) = 1
    /\ path.segments[1].arguments.kind = "None"
    /\ path.segments[1].ident = ident

(***************************************************************************)
(* syn::Generics and syn::GenericParam.                                    *)
(***************************************************************************)
GenericParam(kind, ident, bounds) == [kind |-> kind, ident |-> ident, bounds |-> bounds]

Generics(params, where_clause) ==
    [lt_token |-> params # <<>>, params |-> params, gt_token |-> params # <<>>,
     where_clause |-> where_clause]

GenericsDefault ==
    [lt_token |-> FALSE, params |-> <<>>, gt_token |-> FALSE, where_clause |-> FALSE]

\* the closure of the type-parameter arm: does this argument select tp?
type_arg_matches(ga, tp) ==
    IF ga.kind = "Type" /\ ga.ty.kind = "Path"
    THEN is_ident(ga.ty.path, tp.ident)
    ELSE FALSE

\* the closure of the lifetime-parameter arm: does this argument select ld?
lifetime_arg_matches(ga, ld) ==
    IF ga.kind = "Lifetime" THEN ga.lifetime = ld.ident ELSE FALSE

\* a mutant of param_selected: const parameters are matched like type
\* parameters instead of being ignored
param_selected_keeps_const(param, args) ==
    IF param.kind = "Lifetime"
    THEN \E i \in DOMAIN args : lifetime_arg_matches(args[i], param)
    ELSE \E i \in DOMAIN args : type_arg_matches(args[i], param)

\* one iteration of the loop over g.params: is param pushed?
param_selected(param, args) ==
    CASE param.kind = "Type" -> \E i \in DOMAIN args : type_arg_matches(args[i], param)
      [] param.kind = "Lifetime" -> \E i \in DOMAIN args : lifetime_arg_matches(args[i], param)
      [] param.kind = "Const" -> FALSE

filter_generics(g, path_args) ==
    CASE path_args.kind = "None" ->
            [generics |-> GenericsDefault, diags |-> <<>>]
      [] path_args.kind = "Parenthesized" ->
            [generics |-> GenericsDefault,
             diags |-> compile_error(<<>>, "Mockall does not support mocking Fn objects")]
      [] path_args.kind = "AngleBracketed" ->
            IF g.where_clause
            THEN [generics |-> g,
                  diags |-> compile_error(<<>>,
                      "Mockall does not yet support where clauses here")]
            ELSE LET params == SelectSeq(g.params,
                                   LAMBDA p : param_selected(p, path_args.args))
                 IN [generics |-> IF params = <<>>
                                  THEN GenericsDefault
                                  ELSE [lt_token |-> TRUE, params |-> params,
                                        gt_token |-> TRUE, where_clause |-> FALSE],
                     diags |-> <<>>]

(***************************************************************************)
(* Inputs of filter_generics.                                              *)
(***************************************************************************)
ParamUniverse ==
    { GenericParam("Type", "A", <<"Copy">>),
      GenericParam("Type", "B", <<>>),
      GenericParam("Lifetime", "'a", <<"'b">>),
      GenericParam("Const", "N", <<>>) }

GenericArgUniverse ==
    { ArgType(TypePath(FALSE, IdentPath("A"))),
      ArgType(TypePath(FALSE, IdentPath("B"))),
      ArgType(TypePath(FALSE, IdentPath("N"))),
      ArgType(TypePath(FALSE, Path(TRUE, <<Segment("A", PathArgumentsNone)>>))),
      ArgType(TypePath(FALSE, Path2("m", "B"))),
      ArgType(TypeElem("Reference", TypePath(FALSE, IdentPath("A")))),
      ArgLifetime("'a"),
      ArgLifetime("'b"),
      ArgOther("Const") }

\* parameter lists never declare one name twice
GenericsUniverse ==
    { Generics(ps, w) : ps \in InjSeqsUpTo(ParamUniverse, MaxParams), w \in BOOLEAN }

PathArgumentsUniverse ==
    {PathArgumentsNone}
    \cup { Parenthesized(<<a.ty>>) : a \in {x \in GenericArgUniverse : x.kind = "Type"} }
    \cup { AngleBracketed(a) : a \in SeqsUpTo(GenericArgUniverse, MaxArgs) }

EmptyAttrs == [attrs |-> [k \in {} |-> 0], modname |-> [kind |-> "None"]]

NoMock == [kind |-> "None"]

NoOutput == [kind |-> "None"]

\* nothing runs while the macro expands: no store exists and no thread
NoMutexes == <<>>

NoThreads == <<>>

(***************************************************************************)
(* SpecFilter: filter_generics applied to every bounded input.             *)
(***************************************************************************)
InitFilter ==
    /\ pc = "start"
    /\ attrs = EmptyAttrs
    /\ \E g \in GenericsUniverse, a \in PathArgumentsUniverse :
          input = [fn |-> "filter_generics", g |-> g, path_args |-> a]
    /\ output = NoOutput
    /\ diags = <<>>
    /\ mock = NoMock
    /\ mutex = NoMutexes
    /\ threads = NoThreads

FilterGenerics ==
    /\ pc = "start"
    /\ input.fn = "filter_generics"
    /\ LET r == filter_generics(input.g, input.path_args)
       IN /\ output' = r.generics
          /\ diags' = diags \o r.diags
    /\ pc' = "returned"
    /\ UNCHANGED <<attrs, input, mock, mutex, threads>>

NextFilter == FilterGenerics

SpecFilter == InitFilter /\ [][NextFilter]_vars


(***************************************************************************)
(* Properties of filter_generics.                                          *)
(***************************************************************************)
\* the generic arguments a use site supplies
UseSiteArgs(path_args) ==
    IF path_args.kind = "AngleBracketed" THEN path_args.args ELSE <<>>

\* r is s with some elements left out, the others in the order of s
IsOrderedSubseq(r, s) ==
    \E f \in [1..Len(r) -> 1..Len(s)] :
        /\ \A i, j \in 1..Len(r) : i < j => f[i] < f[j]
        /\ \A i \in 1..Len(r) : r[i] = s[f[i]]

\* the argument is a type that is nothing but the name ident
NamesParam(ga, ident) ==
    /\ ga.kind = "Type"
    /\ ga.ty.kind = "Path"
    /\ ga.ty.path = IdentPath(ident)

FilterSound(g, path_args, res) ==
    LET args == UseSiteArgs(path_args) IN
    /\ IsOrderedSubseq(res, g.params)
    /\ \A i \in 1..Len(g.params) :
          LET p == g.params[i] IN
          /\ p.kind = "Type" =>
                ((p \in Range(res)) <=> \E k \in DOMAIN args : NamesParam(args[k], p.ident))
          /\ p.kind = "Lifetime" =>
                ((p \in Range(res)) <=> \E k \in DOMAIN args : args[k] = ArgLifetime(p.ident))
          /\ p.kind = "Const" => p \notin Range(res)

FilterReturned == pc = "returned" /\ input.fn = "filter_generics"

\* C1 as stated: for every G and A the result of filter_generics(G, A) is an
\* order-preserving subsequence of G, holding exactly the type and lifetime
\* parameters that A names and no const parameter.
C1_FilterSoundAlways ==
    FilterReturned => FilterSound(input.g, input.path_args, output.params)

\* C1 amended: whenever filter_generics reports no failure its result is an
\* order-preserving subsequence of G with bounds unchanged, holding exactly
\* the type and lifetime parameters that A names and no const parameter; with
\* angle-bracketed A and a where-clause on G it reports a failure and returns
\* G whole, and with parenthesized A it reports a failure and returns the
\* empty list.
C1_FilterSoundOnSuccess ==
    FilterReturned =>
        /\ diags = <<>> => FilterSound(input.g, input.path_args, output.params)
        /\ diags # <<>> <=>
              \/ input.path_args.kind = "Parenthesized"
              \/ input.path_args.kind = "AngleBracketed" /\ input.g.where_clause
        /\ input.path_args.kind = "AngleBracketed" /\ input.g.where_clause
              => output = input.g
        /\ input.path_args.kind = "Parenthesized" => output = GenericsDefault

\* a two-parameter list of which the bounded one is kept and the other dropped
C1_Witness ==
    /\ FilterReturned
    /\ diags = <<>>
    /\ Len(input.g.params) = 2
    /\ Len(output.params) = 1
    /\ output.params[1].bounds # <<>>
    /\ output.params[1] = input.g.params[2]


(***************************************************************************)
(* Attrs: the type substitution engine.                                    *)
(* Attrs.attrs is a function from identifiers to types; an Option is a     *)
(* record of kind "None" or "Some".                                        *)
(***************************************************************************)
None == [kind |-> "None"]

Some(v) == [kind |-> "Some", value |-> v]

EmptyMap == [k \in {} |-> None]

HashMapGet(m, k) == IF k \in DOMAIN m THEN Some(m[k]) ELSE None

\* a mutant of get_path: the leading `::` is not looked at
get_path_any_root(a, path) ==
    IF Len(path.segments) = 2
    THEN IF path.segments[1].ident = "Self"
         THEN HashMapGet(a.attrs, path.segments[Len(path.segments)].ident)
         ELSE None
    ELSE None

get_path(a, path) ==
    IF ~path.leading_colon /\ Len(path.segments) = 2
    THEN IF path.segments[1].ident = "Self"
         THEN HashMapGet(a.attrs, path.segments[Len(path.segments)].ident)
         ELSE None
    ELSE None

\* a mutant of substitute_type_param_bound: a mapped bound is always refused,
\* also when the mapped type is a named path
substitute_type_param_bound_never_path(a, bound) ==
    IF bound.kind = "Trait"
    THEN LET got == get_path(a, bound.path) IN
         CASE got.kind = "None" -> [bound |-> bound, diags |-> <<>>]
           [] OTHER ->
                [bound |-> bound,
                 diags |-> compile_error(<<>>, "Can only substitute paths for trait bounds")]
    ELSE [bound |-> bound, diags |-> <<>>]

substitute_type_param_bound(a, bound) ==
    IF bound.kind = "Trait"
    THEN LET got == get_path(a, bound.path) IN
         CASE got.kind = "None" -> [bound |-> bound, diags |-> <<>>]
           [] got.kind = "Some" /\ got.value.kind = "Path" ->
                [bound |-> [bound EXCEPT !.path = got.value.path], diags |-> <<>>]
           [] OTHER ->
                [bound |-> bound,
                 diags |-> compile_error(<<>>, "Can only substitute paths for trait bounds")]
    ELSE [bound |-> bound, diags |-> <<>>]

ElemKinds == {"Slice", "Array", "Ptr", "Reference", "Paren", "Group"}

RECURSIVE substitute_type(_, _)
substitute_type(a, ty) ==
    CASE ty.kind \in ElemKinds ->
            LET r == substitute_type(a, ty.elem)
            IN [ty |-> [ty EXCEPT !.elem = r.ty], diags |-> r.diags]
      [] ty.kind = "BareFn" ->
            LET ins == [i \in DOMAIN ty.inputs |-> substitute_type(a, ty.inputs[i])]
                out == IF ty.output.kind = "Default"
                       THEN [ty |-> ty.output, diags |-> <<>>]
                       ELSE substitute_type(a, ty.output)
            IN [ty |-> [ty EXCEPT !.inputs = [i \in DOMAIN ins |-> ins[i].ty],
                                  !.output = out.ty],
                diags |-> Flatten([i \in DOMAIN ins |-> ins[i].diags]) \o out.diags]
      [] ty.kind = "Tuple" ->
            LET es == [i \in DOMAIN ty.elems |-> substitute_type(a, ty.elems[i])]
            IN [ty |-> [ty EXCEPT !.elems = [i \in DOMAIN es |-> es[i].ty]],
                diags |-> Flatten([i \in DOMAIN es |-> es[i].diags])]
      [] ty.kind = "Path" ->
            LET d == IF ty.qself THEN compile_error(<<>>, "QSelf is TODO") ELSE <<>>
                got == get_path(a, ty.path)
            IN [ty |-> IF got.kind = "Some" THEN got.value ELSE ty, diags |-> d]
      [] ty.kind \in {"TraitObject", "ImplTrait"} ->
            LET bs == [i \in DOMAIN ty.bounds |->
                          substitute_type_param_bound(a, ty.bounds[i])]
            IN [ty |-> [ty EXCEPT !.bounds = [i \in DOMAIN bs |-> bs[i].bound]],
                diags |-> Flatten([i \in DOMAIN bs |-> bs[i].diags])]
      [] ty.kind \in {"Macro", "Verbatim"} ->
            [ty |-> ty,
             diags |-> compile_error(<<>>,
                 "mockall_derive does not support this type when using associated types")]
      [] ty.kind \in {"Infer", "Never"} ->
            [ty |-> ty, diags |-> <<>>]

(***************************************************************************)
(* Inputs of substitute_type.                                              *)
(***************************************************************************)
U32 == TypePath(FALSE, IdentPath("u32"))

SelfT == TypePath(FALSE, Path2("Self", "T"))

SelfU == TypePath(FALSE, Path2("Self", "U"))

VecOf(ty) == TypePath(FALSE, Path(FALSE, <<Segment("Vec", AngleBracketed(<<ArgType(ty)>>))>>))

Keys == {"T", "U"}

MappedTypes == { U32, SelfU, TypeElem("Slice", U32) }

Configs == UNION { [ks -> MappedTypes] : ks \in SUBSET Keys }

LeafTypes ==
    { SelfT, SelfU, U32,
      TypePath(FALSE, Path(TRUE, Path2("Self", "T").segments)),
      TypePath(FALSE, Path(FALSE, <<Segment("Self", PathArgumentsNone),
                                    Segment("T", PathArgumentsNone),
                                    Segment("V", PathArgumentsNone)>>)),
      TypePath(FALSE, Path2("Other", "T")),
      TypePath(FALSE, IdentPath("T")),
      TypePath(TRUE, Path2("Tr", "T")),
      TypePath(TRUE, Path2("Self", "T")),
      VecOf(SelfT),
      TypeLeaf("Infer"), TypeLeaf("Never"), TypeLeaf("Macro"), TypeLeaf("Verbatim") }

BoundUniverse ==
    { BoundTrait(Path2("Self", "T")), BoundTrait(Path2("Self", "U")),
      BoundTrait(IdentPath("Send")), BoundLifetime("'a") }

PairTails == { SelfT, TypeLeaf("Macro") }

Wrap(S) ==
    { TypeElem(k, t) : k \in ElemKinds, t \in S }
    \cup { TypeTuple(<<>>) }
    \cup { TypeTuple(<<t>>) : t \in S }
    \cup { TypeTuple(<<t, u>>) : t \in S, u \in PairTails }
    \cup { TypeBareFn(<<t>>, ReturnDefault) : t \in S }
    \cup { TypeBareFn(<<>>, t) : t \in S }
    \cup { TypeBareFn(<<u>>, t) : t \in S, u \in PairTails }
    \cup { TypeBounds(k, bs) : k \in {"TraitObject", "ImplTrait"},
                               bs \in SeqsUpTo(BoundUniverse, 2) }

RECURSIVE TypesAt(_)
TypesAt(d) == IF d = 0 THEN LeafTypes ELSE LeafTypes \cup Wrap(TypesAt(d - 1))

TypeUniverse == TypesAt(MaxDepth)

(***************************************************************************)
(* SpecSubst: substitute_type applied to every bounded type expression     *)
(* under every bounded configuration.                                      *)
(***************************************************************************)
InitSubst ==
    /\ pc = "start"
    /\ \E m \in Configs : attrs = [attrs |-> m, modname |-> None]
    /\ \E t \in TypeUniverse : input = [fn |-> "substitute_type", ty |-> t]
    /\ output = NoOutput
    /\ diags = <<>>
    /\ mock = NoMock
    /\ mutex = NoMutexes
    /\ threads = NoThreads

\* a mutant of SubstituteType: the mapped types that the traversal inserted
\* are visited in their turn
SubstituteType_revisits ==
    /\ pc = "start"
    /\ input.fn = "substitute_type"
    /\ LET r == substitute_type(attrs, input.ty)
           rr == substitute_type(attrs, r.ty)
       IN /\ output' = rr.ty
          /\ diags' = diags \o r.diags \o rr.diags
    /\ pc' = "returned"
    /\ UNCHANGED <<attrs, input, mock, mutex, threads>>

SubstituteType ==
    /\ pc = "start"
    /\ input.fn = "substitute_type"
    /\ LET r == substitute_type(attrs, input.ty)
       IN /\ output' = r.ty
          /\ diags' = diags \o r.diags
    /\ pc' = "returned"
    /\ UNCHANGED <<attrs, input, mock, mutex, threads>>

NextSubst == SubstituteType

SpecSubst == InitSubst /\ [][NextSubst]_vars


(***************************************************************************)
(* Properties of substitute_type.                                          *)
(***************************************************************************)
SubstReturned == pc = "returned" /\ input.fn = "substitute_type"

\* the path is `Self::X` with X a key of the configuration
IsMappedSelfPath(a, path) ==
    /\ Len(path.segments) = 2
    /\ ~path.leading_colon
    /\ path.segments[1].ident = "Self"
    /\ path.segments[2].ident \in DOMAIN a.attrs

\* what the claim says becomes of a named-path node
PathNodeAsClaimed(a, before, after) ==
    IF IsMappedSelfPath(a, before.path)
    THEN after = a.attrs[before.path.segments[2].ident]
    ELSE after = before

\* C3: a named-path node is replaced by the mapped type exactly when its path
\* is `Self::X`, two segments, no leading `::`, X a key; any other named-path
\* node is left as it was.  Checked for the root node and for a named-path
\* node directly under a slice, array, pointer, reference, paren, group or
\* tuple.
C3_PathReplacedIffSelfKey ==
    SubstReturned =>
        /\ input.ty.kind = "Path" => PathNodeAsClaimed(attrs, input.ty, output)
        /\ input.ty.kind \in ElemKinds /\ input.ty.elem.kind = "Path" =>
              PathNodeAsClaimed(attrs, input.ty.elem, output.elem)
        /\ input.ty.kind = "Tuple" =>
              \A i \in DOMAIN input.ty.elems :
                  input.ty.elems[i].kind = "Path" =>
                      PathNodeAsClaimed(attrs, input.ty.elems[i], output.elems[i])

\* `Self::T` under a reference, T mapped to a different type, was replaced
C3_Witness ==
    /\ SubstReturned
    /\ input.ty = TypeElem("Reference", SelfT)
    /\ "T" \in DOMAIN attrs.attrs
    /\ output = TypeElem("Reference", attrs.attrs["T"])
    /\ output # input.ty

RECURSIVE Nodes(_)
\* the nodes of a type expression, those in generic arguments included
Nodes(ty) ==
    {ty} \cup
    CASE ty.kind \in ElemKinds -> Nodes(ty.elem)
      [] ty.kind = "Tuple" -> UNION { Nodes(ty.elems[i]) : i \in DOMAIN ty.elems }
      [] ty.kind = "BareFn" ->
            UNION { Nodes(ty.inputs[i]) : i \in DOMAIN ty.inputs }
            \cup (IF ty.output.kind = "Default" THEN {} ELSE Nodes(ty.output))
      [] ty.kind = "Path" ->
            UNION { LET pa == ty.path.segments[i].arguments IN
                    IF pa.kind = "AngleBracketed"
                    THEN UNION { IF pa.args[k].kind = "Type"
                                 THEN Nodes(pa.args[k].ty) ELSE {} : k \in DOMAIN pa.args }
                    ELSE {} : i \in DOMAIN ty.path.segments }
      [] OTHER -> {}

\* some node of the type expression, generic arguments included, satisfies P
AnyNode(ty, P(_)) == \E n \in Nodes(ty) : P(n)

IsUnsupportedNode(ty) == ty.kind \in {"Macro", "Verbatim"}

IsQSelfNode(ty) == ty.kind = "Path" /\ ty.qself

\* a trait-object or impl-trait node with a bound `Self::X`, X mapped to a type
\* that is not a named path
HasNonPathBound(a, ty) ==
    /\ ty.kind \in {"TraitObject", "ImplTrait"}
    /\ \E i \in DOMAIN ty.bounds :
          /\ ty.bounds[i].kind = "Trait"
          /\ IsMappedSelfPath(a, ty.bounds[i].path)
          /\ a.attrs[ty.bounds[i].path.segments[2].ident].kind # "Path"

WellFormedPath(path) ==
    /\ DOMAIN path = {"leading_colon", "segments"}
    /\ path.leading_colon \in BOOLEAN
    /\ Len(path.segments) >= 1
    /\ \A i \in DOMAIN path.segments :
          DOMAIN path.segments[i] = {"ident", "arguments"}

WellFormedBound(b) ==
    \/ b.kind = "Lifetime"
    \/ b.kind = "Trait" /\ DOMAIN b = {"kind", "path"} /\ WellFormedPath(b.path)

RECURSIVE WellFormedType(_)
WellFormedType(ty) ==
    CASE ty.kind \in ElemKinds -> DOMAIN ty = {"kind", "elem"} /\ WellFormedType(ty.elem)
      [] ty.kind = "Tuple" -> \A i \in DOMAIN ty.elems : WellFormedType(ty.elems[i])
      [] ty.kind = "BareFn" ->
            /\ \A i \in DOMAIN ty.inputs : WellFormedType(ty.inputs[i])
            /\ ty.output.kind = "Default" \/ WellFormedType(ty.output)
      [] ty.kind = "Path" ->
            /\ DOMAIN ty = {"kind", "qself", "path"}
            /\ WellFormedPath(ty.path)
      [] ty.kind \in {"TraitObject", "ImplTrait"} ->
            \A i \in DOMAIN ty.bounds : WellFormedBound(ty.bounds[i])
      [] ty.kind \in {"Macro", "Verbatim", "Infer", "Never"} -> DOMAIN ty = {"kind"}
      [] OTHER -> FALSE

\* C6 as stated: a type expression without macro-produced or verbatim node is
\* substituted without any failure being reported and the result is well
\* formed; a macro-produced or verbatim node always reports a failure.
C6_TotalExceptMacroVerbatim ==
    SubstReturned =>
        /\ ~AnyNode(input.ty, IsUnsupportedNode) =>
              diags = <<>> /\ WellFormedType(output)
        /\ IsUnsupportedNode(input.ty) => diags # <<>>

\* C6 amended: a type expression without macro-produced or verbatim node,
\* without qualified-self path and without trait bound `Self::X` whose mapped
\* type is not a named path is substituted without any failure being reported,
\* and the result is well formed; every call returns; a macro-produced or
\* verbatim node always reports a failure.
C6_TotalExceptUnsupported ==
    /\ pc = "start" /\ input.fn = "substitute_type" => ENABLED SubstituteType
    /\ SubstReturned =>
        /\ (/\ ~AnyNode(input.ty, IsUnsupportedNode)
            /\ ~AnyNode(input.ty, IsQSelfNode)
            /\ ~AnyNode(input.ty, LAMBDA t : HasNonPathBound(attrs, t)))
              => diags = <<>> /\ WellFormedType(output)
        /\ IsUnsupportedNode(input.ty) => diags # <<>>

\* a trait object whose bound `Self::T` was replaced by the path of T's type
C6_Witness ==
    /\ SubstReturned
    /\ input.ty.kind = "TraitObject"
    /\ diags = <<>>
    /\ output # input.ty
    /\ WellFormedType(output)


(***************************************************************************)
(* Attrs::parse.  The attribute token stream is a sequence of directives:  *)
(* `mod <ident>;` or `mod <ident> { .. }` (kind "Mod", content says whether *)
(* it has a body), `type <ident> [= <type>];` (kind "Type"), or tokens that *)
(* begin neither with `mod` nor with `type` (kind "Junk").                 *)
(***************************************************************************)
AttrMod(ident, content) == [kind |-> "Mod", ident |-> ident, content |-> content]

AttrType(ident, default) == [kind |-> "Type", ident |-> ident, default |-> default]

AttrJunk == [kind |-> "Junk"]

HashMapInsert(m, k, v) == [x \in DOMAIN m \cup {k} |-> IF x = k THEN v ELSE m[x]]

RECURSIVE AttrsParseLoop(_, _, _, _, _)
\* the while loop of Attrs::parse from directive i on
AttrsParseLoop(stream, i, map, modname, ds) ==
    IF i > Len(stream)
    THEN [ok |-> TRUE, value |-> [attrs |-> map, modname |-> modname], diags |-> ds]
    ELSE LET attr == stream[i] IN
         CASE attr.kind = "Junk" ->
                [ok |-> FALSE, value |-> [attrs |-> map, modname |-> modname], diags |-> ds]
           [] attr.kind = "Mod" ->
                AttrsParseLoop(stream, i + 1, map, Some(attr.ident),
                    IF attr.content
                    THEN compile_error(ds,
                        "mod name attributes must have the form \"mod my_name;\"")
                    ELSE ds)
           [] attr.kind = "Type" ->
                IF attr.default.kind = "Some"
                THEN AttrsParseLoop(stream, i + 1,
                         HashMapInsert(map, attr.ident, attr.default.value), modname, ds)
                ELSE AttrsParseLoop(stream, i + 1, map, modname,
                         compile_error(ds,
                             "automock type attributes must have a default value"))

AttrsParse(stream) == AttrsParseLoop(stream, 1, EmptyMap, None, <<>>)

(***************************************************************************)
(* Trait items and Attrs::substitute_types.                                *)
(* An FnArg is of kind "SelfRef", "SelfValue", "Captured" (with ty),       *)
(* "Inferred" or "Ignored"; a ReturnType is ReturnDefault or a type.       *)
(***************************************************************************)
FnArgSelfRef == [kind |-> "SelfRef"]

FnArgCaptured(pat, ty) == [kind |-> "Captured", pat |-> pat, ty |-> ty]

FnDecl(generics, inputs, variadic, out) ==
    [generics |-> generics, inputs |-> inputs, variadic |-> variadic, output |-> out]

MethodSig(ident, decl) ==
    [constness |-> FALSE, unsafety |-> FALSE, asyncness |-> FALSE, ident |-> ident,
     decl |-> decl]

TraitItemType(ident, bounds, default) ==
    [kind |-> "Type", attrs |-> <<"doc">>, ident |-> ident, generics |-> GenericsDefault,
     bounds |-> bounds, default |-> default]

TraitItemMethod(sig, default) ==
    [kind |-> "Method", attrs |-> <<>>, sig |-> sig, default |-> default, semi_token |-> ~default]

TraitItemConst(ident) == [kind |-> "Const", ident |-> ident]

ItemTrait(vis, ident, generics, items) ==
    [kind |-> "Trait", attrs |-> <<>>, vis |-> vis, unsafety |-> FALSE, ident |-> ident,
     generics |-> generics, supertraits |-> <<>>, items |-> items]

\* a mutant of substitute_trait_item: the declared bounds are kept
substitute_trait_item_keeps_bounds(a, trait_item) ==
    CASE trait_item.kind = "Type" ->
            IF trait_item.ident \in DOMAIN a.attrs
            THEN [item |-> [trait_item EXCEPT !.default = Some(a.attrs[trait_item.ident])],
                  diags |-> <<>>]
            ELSE [item |-> trait_item,
                  diags |-> compile_error(<<>>, "Default value not given for associated type")]
      [] OTHER -> [item |-> trait_item, diags |-> <<>>]

\* the body of the loop of substitute_types, for one trait item
substitute_trait_item(a, trait_item) ==
    CASE trait_item.kind = "Type" ->
            IF trait_item.ident \in DOMAIN a.attrs
            THEN [item |-> [trait_item EXCEPT !.default = Some(a.attrs[trait_item.ident]),
                                              !.bounds = <<>>],
                  diags |-> <<>>]
            ELSE [item |-> trait_item,
                  diags |-> compile_error(<<>>, "Default value not given for associated type")]
      [] trait_item.kind = "Method" ->
            LET decl == trait_item.sig.decl
                ins == [i \in DOMAIN decl.inputs |->
                          IF decl.inputs[i].kind = "Captured"
                          THEN LET r == substitute_type(a, decl.inputs[i].ty)
                               IN [arg |-> [decl.inputs[i] EXCEPT !.ty = r.ty],
                                   diags |-> r.diags]
                          ELSE [arg |-> decl.inputs[i], diags |-> <<>>]]
                out == IF decl.output.kind = "Default"
                       THEN [ty |-> decl.output, diags |-> <<>>]
                       ELSE substitute_type(a, decl.output)
            IN [item |-> [trait_item EXCEPT
                            !.sig.decl.inputs = [i \in DOMAIN ins |-> ins[i].arg],
                            !.sig.decl.output = out.ty],
                diags |-> Flatten([i \in DOMAIN ins |-> ins[i].diags]) \o out.diags]
      [] OTHER -> [item |-> trait_item, diags |-> <<>>]

substitute_types(a, item) ==
    LET rs == [i \in DOMAIN item.items |-> substitute_trait_item(a, item.items[i])]
    IN [item |-> [item EXCEPT !.items = [i \in DOMAIN rs |-> rs[i].item]],
        diags |-> Flatten([i \in DOMAIN rs |-> rs[i].diags])]

(***************************************************************************)
(* Mock: the value whose gen() the builder runs.  A strategy answers with  *)
(* a record: the tokens returned, the diagnostics emitted, the Mock handed *)
(* to the builder (or NoMock) and whether the strategy panicked.           *)
(***************************************************************************)
Mock(vis, name, generics, methods, traits) ==
    [kind |-> "Mock", vis |-> vis, name |-> name, generics |-> generics,
     methods |-> methods, traits |-> traits]

EmptyTokenStream == [kind |-> "Empty"]

\* the tokens of Mock::gen: the builder's output for this Mock
MockGen(m) == [kind |-> "MockGen", mock |-> m]

Returned(tokens, ds, m) ==
    [tokens |-> tokens, diags |-> ds, mock |-> m, panicked |-> FALSE]

Panicked(ds) ==
    [tokens |-> NoOutput, diags |-> ds, mock |-> NoMock, panicked |-> TRUE]

mock_trait(a, item) ==
    LET generics == item.generics
        trait_ == substitute_types(a, item)
        m == Mock(item.vis, item.ident, generics, <<>>, <<trait_.item>>)
    IN Returned(MockGen(m), trait_.diags, m)


(***************************************************************************)
(* find_ident_from_path and mock_impl.                                     *)
(***************************************************************************)
\* syn::Ident::new(string, span): an identifier cannot be empty, and
\* proc_macro2 panics when asked for one
IdentNewPanics(string) == string = ""

\* a mutant of find_ident_from_path: the placeholder identifier is `_`
find_ident_from_path_placeholder(path) ==
    IF Len(path.segments) # 1
    THEN [ident |-> "_", arguments |-> PathArgumentsNone,
          diags |-> compile_error(<<>>,
              "mockall_derive only supports structs defined in the current module"),
          panicked |-> IdentNewPanics("_")]
    ELSE LET last_seg == path.segments[Len(path.segments)]
         IN [ident |-> last_seg.ident, arguments |-> last_seg.arguments,
             diags |-> <<>>, panicked |-> FALSE]

find_ident_from_path(path) ==
    IF Len(path.segments) # 1
    THEN [ident |-> "", arguments |-> PathArgumentsNone,
          diags |-> compile_error(<<>>,
              "mockall_derive only supports structs defined in the current module"),
          panicked |-> IdentNewPanics("")]
    ELSE LET last_seg == path.segments[Len(path.segments)]
         IN [ident |-> last_seg.ident, arguments |-> last_seg.arguments,
             diags |-> <<>>, panicked |-> FALSE]

ImplItemMethod(sig) ==
    [kind |-> "Method", attrs |-> <<"inline">>, vis |-> "inherited", sig |-> sig,
     block |-> "body"]

ImplItemOther(kind, ident) == [kind |-> kind, ident |-> ident]

ItemImpl(generics, trait_, self_ty, items) ==
    [kind |-> "Impl", unsafety |-> FALSE, generics |-> generics, trait_ |-> trait_,
     self_ty |-> self_ty, items |-> items]

\* a mutant of impl_item_method: an item that is neither a const nor a method
\* is dropped like a const
impl_item_method_drops_silently(item) ==
    IF item.kind = "Method"
    THEN [method |-> Some([kind |-> "Method", attrs |-> <<>>, sig |-> item.sig,
                           default |-> FALSE, semi_token |-> TRUE]),
          diags |-> <<>>]
    ELSE [method |-> None, diags |-> <<>>]

\* the closure given to filter_map, for one impl item
impl_item_method(item) ==
    CASE item.kind = "Const" -> [method |-> None, diags |-> <<>>]
      [] item.kind = "Method" ->
            [method |-> Some([kind |-> "Method", attrs |-> <<>>, sig |-> item.sig,
                              default |-> FALSE, semi_token |-> TRUE]),
             diags |-> <<>>]
      [] OTHER ->
            [method |-> None,
             diags |-> compile_error(<<>>, "This impl item is not yet supported by MockAll")]

\* a mutant of mock_impl_named: the generics of the synthetic trait are
\* filtered against the arguments of the self type
mock_impl_named_filters_by_self_ty(item_impl, name, ds0) ==
    LET rs == [i \in DOMAIN item_impl.items |-> impl_item_method(item_impl.items[i])]
        methods == Flatten([i \in DOMAIN rs |->
                       IF rs[i].method.kind = "Some" THEN <<rs[i].method.value>> ELSE <<>>])
        ds1 == ds0 \o Flatten([i \in DOMAIN rs |-> rs[i].diags])
        vis == "pub"
    IN IF item_impl.trait_.kind = "Some"
       THEN LET path == item_impl.trait_.value
                self_path == item_impl.self_ty.path
                path_args == self_path.segments[Len(self_path.segments)].arguments
                id == find_ident_from_path(path)
            IN IF id.panicked
               THEN Panicked(ds1 \o id.diags)
               ELSE LET fg == filter_generics(item_impl.generics, path_args)
                        trait_ == [kind |-> "Trait", attrs |-> <<>>, vis |-> vis,
                                   unsafety |-> item_impl.unsafety, ident |-> id.ident,
                                   generics |-> fg.generics, supertraits |-> <<>>,
                                   items |-> methods]
                        m == Mock(vis, name, item_impl.generics, <<>>, <<trait_>>)
                    IN Returned(MockGen(m), ds1 \o id.diags \o fg.diags, m)
       ELSE LET m == Mock(vis, name, item_impl.generics, methods, <<>>)
            IN Returned(MockGen(m), ds1, m)

\* a mutant of mock_impl_named: the methods of a trait impl are direct
\* methods of the Mock as well
mock_impl_named_direct_too(item_impl, name, ds0) ==
    LET rs == [i \in DOMAIN item_impl.items |-> impl_item_method(item_impl.items[i])]
        methods == Flatten([i \in DOMAIN rs |->
                       IF rs[i].method.kind = "Some" THEN <<rs[i].method.value>> ELSE <<>>])
        ds1 == ds0 \o Flatten([i \in DOMAIN rs |-> rs[i].diags])
        vis == "pub"
    IN IF item_impl.trait_.kind = "Some"
       THEN LET path == item_impl.trait_.value
                path_args == path.segments[Len(path.segments)].arguments
                id == find_ident_from_path(path)
            IN IF id.panicked
               THEN Panicked(ds1 \o id.diags)
               ELSE LET fg == filter_generics(item_impl.generics, path_args)
                        trait_ == [kind |-> "Trait", attrs |-> <<>>, vis |-> vis,
                                   unsafety |-> item_impl.unsafety, ident |-> id.ident,
                                   generics |-> fg.generics, supertraits |-> <<>>,
                                   items |-> methods]
                        m == Mock(vis, name, item_impl.generics, methods, <<trait_>>)
                    IN Returned(MockGen(m), ds1 \o id.diags \o fg.diags, m)
       ELSE LET m == Mock(vis, name, item_impl.generics, methods, <<>>)
            IN Returned(MockGen(m), ds1, m)

\* the rest of mock_impl once the name is known
mock_impl_named(item_impl, name, ds0) ==
    LET rs == [i \in DOMAIN item_impl.items |-> impl_item_method(item_impl.items[i])]
        methods == Flatten([i \in DOMAIN rs |->
                       IF rs[i].method.kind = "Some" THEN <<rs[i].method.value>> ELSE <<>>])
        ds1 == ds0 \o Flatten([i \in DOMAIN rs |-> rs[i].diags])
        vis == "pub"
    IN IF item_impl.trait_.kind = "Some"
       THEN LET path == item_impl.trait_.value
                path_args == path.segments[Len(path.segments)].arguments
                id == find_ident_from_path(path)
            IN IF id.panicked
               THEN Panicked(ds1 \o id.diags)
               ELSE LET fg == filter_generics(item_impl.generics, path_args)
                        trait_ == [kind |-> "Trait", attrs |-> <<>>, vis |-> vis,
                                   unsafety |-> item_impl.unsafety, ident |-> id.ident,
                                   generics |-> fg.generics, supertraits |-> <<>>,
                                   items |-> methods]
                        m == Mock(vis, name, item_impl.generics, <<>>, <<trait_>>)
                    IN Returned(MockGen(m), ds1 \o id.diags \o fg.diags, m)
       ELSE LET m == Mock(vis, name, item_impl.generics, methods, <<>>)
            IN Returned(MockGen(m), ds1, m)

mock_impl(item_impl) ==
    IF item_impl.self_ty.kind = "Path"
    THEN LET id == find_ident_from_path(item_impl.self_ty.path)
         IN IF id.panicked
            THEN Panicked(id.diags)
            ELSE mock_impl_named(item_impl, id.ident, id.diags)
    ELSE Returned(EmptyTokenStream,
                  compile_error(<<>>, "mockall_derive only supports mocking traits and structs"),
                  NoMock)

(***************************************************************************)
(* mock_function, mock_foreign and mock_module.  The tokens they emit are  *)
(* a module: its name and the sequence of its items.                       *)
(***************************************************************************)
\* method_types(None, sig): the expectation type of a function, from its
\* argument types and its return type
method_types(sig) ==
    LET tys == Flatten([i \in DOMAIN sig.decl.inputs |->
                   IF sig.decl.inputs[i].kind = "Captured"
                   THEN <<sig.decl.inputs[i].ty>> ELSE <<>>])
    IN [input_type |-> tys, output_type |-> sig.decl.output,
        expect_obj |-> [input_type |-> tys, output_type |-> sig.decl.output]]

ExpectationName(ident) == ident \o "_expectation"

ExpectName(ident) == "expect_" \o ident

GuardLifetime == GenericParam("Lifetime", "'guard", <<>>)

mock_function(vis, constness, unsafety, asyncness, ident, decl) ==
    IF decl.variadic
    THEN [tokens |-> <<>>,
          diags |-> compile_error(<<>>, "Mockall does not support variadic extern functions")]
    ELSE LET ds == Flatten([i \in DOMAIN decl.inputs |->
                       IF decl.inputs[i].kind = "Captured" THEN <<>>
                       ELSE compile_error(<<>>, "Should be unreachable for normal Rust code")])
             args == Flatten([i \in DOMAIN decl.inputs |->
                       IF decl.inputs[i].kind = "Captured"
                       THEN <<decl.inputs[i].pat>> ELSE <<>>])
             sig == [constness |-> constness, unsafety |-> unsafety,
                     asyncness |-> asyncness, ident |-> ident, decl |-> decl]
             meth_types == method_types(sig)
             g == [decl.generics EXCEPT !.params = Append(@, GuardLifetime)]
             obj == ExpectationName(ident)
         IN [tokens |->
               << [kind |-> "LazyStatic", ident |-> obj, ty |-> meth_types.expect_obj],
                  [kind |-> "Fn", vis |-> vis, constness |-> constness,
                   unsafety |-> unsafety, asyncness |-> asyncness, ident |-> ident,
                   generics |-> decl.generics, inputs |-> decl.inputs,
                   output |-> decl.output,
                   body |-> [locks |-> <<obj>>, op |-> "call", args |-> args]],
                  [kind |-> "Fn", vis |-> "pub", constness |-> FALSE, unsafety |-> FALSE,
                   asyncness |-> FALSE, ident |-> ExpectName(ident), generics |-> g,
                   inputs |-> <<>>,
                   output |-> [kind |-> "ExpectationGuard",
                               input_type |-> meth_types.input_type,
                               output_type |-> meth_types.output_type],
                   body |-> [locks |-> <<obj>>, op |-> "guard", args |-> <<>>]] >>,
             diags |-> ds]

mock_foreign_function(f) == mock_function(f.vis, FALSE, TRUE, FALSE, f.ident, f.decl)

mock_native_function(f) ==
    mock_function(f.vis, f.constness, f.unsafety, f.asyncness, f.ident, f.decl)

\* `pub fn checkpoint() { #cp_body }`
CheckpointFn(cp_body) ==
    [kind |-> "Fn", vis |-> "pub", constness |-> FALSE, unsafety |-> FALSE,
     asyncness |-> FALSE, ident |-> "checkpoint", generics |-> GenericsDefault,
     inputs |-> <<>>, output |-> ReturnDefault,
     body |-> [locks |-> cp_body, op |-> "checkpoint", args |-> <<>>]]

ModTokens(modname, body) == [kind |-> "Mod", ident |-> modname, body |-> body]

\* the match of mock_foreign's loop, for one item: what it adds to body, to
\* cp_body and to the diagnostics
mock_foreign_item(item) ==
    CASE item.kind = "Fn" ->
            LET r == mock_foreign_function(item)
            IN [body |-> r.tokens, cp_body |-> <<ExpectationName(item.ident)>>,
                diags |-> r.diags]
      [] item.kind \in {"Static", "Type"} ->
            [body |-> <<item>>, cp_body |-> <<>>, diags |-> <<>>]
      [] item.kind = "Macro" ->
            [body |-> <<>>, cp_body |-> <<>>,
             diags |-> compile_error(<<>>, "Mockall does not support macros in this context")]
      [] item.kind = "Verbatim" ->
            [body |-> <<>>, cp_body |-> <<>>,
             diags |-> compile_error(<<>>, "Content unrecognized by Mockall")]

mock_foreign(a, foreign_mod) ==
    IF a.modname.kind = "None"
    THEN Panicked(<<>>)
    ELSE LET modname == a.modname.value
             rs == [i \in DOMAIN foreign_mod.items |-> mock_foreign_item(foreign_mod.items[i])]
             body == Flatten([i \in DOMAIN rs |-> rs[i].body])
             cp_body == Flatten([i \in DOMAIN rs |-> rs[i].cp_body])
         IN Returned(ModTokens(modname, Append(body, CheckpointFn(cp_body))),
                     Flatten([i \in DOMAIN rs |-> rs[i].diags]), NoMock)

\* a mutant of mock_module_item: `use` and `extern crate` items are copied
mock_module_item_copies_use(item) ==
    CASE item.kind = "Impl" ->
            [body |-> <<>>, cp_body |-> <<>>, diags |-> <<>>]
      [] item.kind \in {"ExternCrate", "Use", "Static", "Const", "Type", "TraitAlias"} ->
            [body |-> <<item>>, cp_body |-> <<>>, diags |-> <<>>]
      [] item.kind = "Fn" ->
            LET r == mock_native_function(item)
            IN [body |-> r.tokens, cp_body |-> <<ExpectationName(item.ident)>>,
                diags |-> r.diags]
      [] OTHER ->
            [body |-> <<>>, cp_body |-> <<>>,
             diags |-> compile_error(<<>>,
                 "Mockall does not yet support deriving nested mocks")]

\* a mutant of mock_module_item: a static is given a checkpoint statement too
mock_module_item_checkpoints_statics(item) ==
    CASE item.kind \in {"ExternCrate", "Use", "Impl"} ->
            [body |-> <<>>, cp_body |-> <<>>, diags |-> <<>>]
      [] item.kind = "Static" ->
            [body |-> <<item>>, cp_body |-> <<ExpectationName(item.ident)>>, diags |-> <<>>]
      [] item.kind \in {"Const", "Type", "TraitAlias"} ->
            [body |-> <<item>>, cp_body |-> <<>>, diags |-> <<>>]
      [] item.kind = "Fn" ->
            LET r == mock_native_function(item)
            IN [body |-> r.tokens, cp_body |-> <<ExpectationName(item.ident)>>,
                diags |-> r.diags]
      [] OTHER ->
            [body |-> <<>>, cp_body |-> <<>>,
             diags |-> compile_error(<<>>,
                 "Mockall does not yet support deriving nested mocks")]

\* the match of mock_module's loop, for one item
mock_module_item(item) ==
    CASE item.kind \in {"ExternCrate", "Use", "Impl"} ->
            [body |-> <<>>, cp_body |-> <<>>, diags |-> <<>>]
      [] item.kind \in {"Static", "Const", "Type", "TraitAlias"} ->
            [body |-> <<item>>, cp_body |-> <<>>, diags |-> <<>>]
      [] item.kind = "Fn" ->
            LET r == mock_native_function(item)
            IN [body |-> r.tokens, cp_body |-> <<ExpectationName(item.ident)>>,
                diags |-> r.diags]
      [] item.kind \in {"Mod", "ForeignMod", "Struct", "Enum", "Union", "Trait"} ->
            [body |-> <<>>, cp_body |-> <<>>,
             diags |-> compile_error(<<>>,
                 "Mockall does not yet support deriving nested mocks")]
      [] item.kind = "Existential" ->
            [body |-> <<>>, cp_body |-> <<>>,
             diags |-> compile_error(<<>>,
                 "Mockall does not yet support named existential types")]
      [] item.kind \in {"Macro", "Macro2"} ->
            [body |-> <<>>, cp_body |-> <<>>,
             diags |-> compile_error(<<>>, "Mockall does not support macros in this context")]
      [] item.kind = "Verbatim" ->
            [body |-> <<>>, cp_body |-> <<>>,
             diags |-> compile_error(<<>>, "Content unrecognized by Mockall")]

mock_module(mod_) ==
    LET modname == "mock_" \o mod_.ident
        items == IF mod_.content.kind = "Some" THEN mod_.content.value ELSE <<>>
        rs == [i \in DOMAIN items |-> mock_module_item(items[i])]
        body == Flatten([i \in DOMAIN rs |-> rs[i].body])
        cp_body == Flatten([i \in DOMAIN rs |-> rs[i].cp_body])
    IN Returned(ModTokens(modname, Append(body, CheckpointFn(cp_body))),
                Flatten([i \in DOMAIN rs |-> rs[i].diags]), NoMock)


(***************************************************************************)
(* Inputs of do_automock: the attribute stream and the item stream.  The   *)
(* item stream is an item as syn::parse2 parses it, or kind "Unparsable".  *)
(***************************************************************************)
DirectiveUniverse ==
    { AttrMod("mock", FALSE), AttrMod("m", TRUE),
      AttrType("T", Some(U32)), AttrType("U", Some(U32)), AttrType("U", None),
      AttrJunk }

AttrStreams == SeqsUpTo(DirectiveUniverse, MaxAttrs)

AttrStreamsShort == SeqsUpTo(DirectiveUniverse, 1)

I64 == TypePath(FALSE, IdentPath("i64"))

U8 == TypePath(FALSE, IdentPath("u8"))

TraitMethod(ident, inputs, out) ==
    TraitItemMethod(MethodSig(ident, FnDecl(GenericsDefault, inputs, FALSE, out)), FALSE)

TraitItemUniverse ==
    { TraitItemType("T", <<"Copy">>, None),
      TraitItemType("U", <<>>, Some(U8)),
      TraitMethod("foo", <<FnArgSelfRef, FnArgCaptured("x", SelfT)>>, SelfT),
      TraitMethod("bar", <<FnArgCaptured("v", VecOf(SelfT))>>, ReturnDefault),
      TraitMethod("baz", <<FnArgSelfRef>>, TypeElem("Reference", TypeElem("Slice", SelfU))),
      TraitItemConst("C") }

TraitUniverse ==
    { ItemTrait("inherited", "A", GenericsDefault, items) :
        items \in InjSeqsUpTo(TraitItemUniverse, MaxItems) }

ImplSelfTypes ==
    { TypePath(FALSE, IdentPath("Foo")),
      TypePath(FALSE, Path(FALSE, <<Segment("Foo",
          AngleBracketed(<<ArgType(TypePath(FALSE, IdentPath("A")))>>))>>)),
      TypePath(FALSE, Path2("m", "Foo")),
      TypeTuple(<<U32>>) }

ImplTraitPaths ==
    { None,
      Some(IdentPath("Tr")),
      Some(Path(FALSE, <<Segment("Tr",
          AngleBracketed(<<ArgType(TypePath(FALSE, IdentPath("A")))>>))>>)),
      Some(Path2("m", "Tr")),
      Some(Path(FALSE, <<Segment("Fn",
          Parenthesized(<<TypePath(FALSE, IdentPath("A"))>>))>>)) }

ImplGenerics ==
    { GenericsDefault,
      Generics(<<GenericParam("Type", "A", <<"Copy">>), GenericParam("Type", "B", <<>>)>>,
               FALSE),
      Generics(<<GenericParam("Type", "A", <<>>)>>, TRUE) }

ImplMethod(ident, inputs, out) ==
    ImplItemMethod(MethodSig(ident, FnDecl(GenericsDefault, inputs, FALSE, out)))

ImplItemUniverse ==
    { ImplMethod("foo", <<FnArgSelfRef, FnArgCaptured("x", U32)>>, I64),
      ImplMethod("bar", <<FnArgSelfRef>>, ReturnDefault),
      ImplItemOther("Const", "C"),
      ImplItemOther("Type", "T"),
      ImplItemOther("Macro", "m") }

ImplUniverse ==
    { ItemImpl(g, t, ty, items) :
        g \in ImplGenerics, t \in ImplTraitPaths, ty \in ImplSelfTypes,
        items \in InjSeqsUpTo(ImplItemUniverse, MaxItems) }

FnItem(vis, unsafety, ident, inputs, variadic, out) ==
    [kind |-> "Fn", vis |-> vis, constness |-> FALSE, unsafety |-> unsafety,
     asyncness |-> FALSE, ident |-> ident,
     decl |-> FnDecl(GenericsDefault, inputs, variadic, out)]

OtherItem(kind, ident) == [kind |-> kind, ident |-> ident]

ForeignItemUniverse ==
    { FnItem("pub", FALSE, "foo", <<FnArgCaptured("x", U32)>>, FALSE, I64),
      FnItem("pub", FALSE, "printf", <<FnArgCaptured("fmt", U8)>>, TRUE, ReturnDefault),
      OtherItem("Static", "errno"),
      OtherItem("Type", "opaque"),
      OtherItem("Macro", "mac"),
      OtherItem("Verbatim", "v") }

ForeignUniverse ==
    { [kind |-> "ForeignMod", items |-> items] :
        items \in InjSeqsUpTo(ForeignItemUniverse, MaxItems) }

ModuleItemUniverse ==
    { FnItem("pub", FALSE, "bar", <<FnArgCaptured("x", U32)>>, FALSE, I64),
      FnItem("inherited", TRUE, "baz", <<>>, FALSE, ReturnDefault),
      FnItem("pub", FALSE, "vf", <<FnArgCaptured("fmt", U8)>>, TRUE, ReturnDefault),
      FnItem("pub", FALSE, "checkpoint", <<>>, FALSE, ReturnDefault),
      FnItem("pub", FALSE, "expect_bar", <<>>, FALSE, ReturnDefault),
      OtherItem("Static", "bar_expectation") }
    \cup { OtherItem(k, "i") :
             k \in {"ExternCrate", "Use", "Impl", "Static", "Const", "Type", "TraitAlias",
                    "Mod", "ForeignMod", "Struct", "Enum", "Union", "Trait",
                    "Existential", "Macro", "Macro2", "Verbatim"} }

ModuleUniverse ==
    { [kind |-> "Mod", ident |-> "foo", content |-> None] }
    \cup { [kind |-> "Mod", ident |-> "foo", content |-> Some(items)] :
             items \in InjSeqsUpTo(ModuleItemUniverse, MaxItems) }

OtherItemUniverse ==
    { OtherItem("Struct", "S"), OtherItem("Enum", "E"),
      FnItem("pub", FALSE, "free", <<>>, FALSE, ReturnDefault) }

Unparsable == [kind |-> "Unparsable"]

AutomockInput(attr_stream, item) ==
    [fn |-> "do_automock", attr_stream |-> attr_stream, item |-> item]

\* the bounded inputs: every attribute stream with every trait and every
\* extern block, the short streams with every module, two streams with every
\* impl block, every stream with the other items
IsAutomockInput(v) ==
    \/ \E s \in AttrStreams, i \in TraitUniverse \cup ForeignUniverse :
          v = AutomockInput(s, i)
    \/ \E s \in AttrStreamsShort, i \in ModuleUniverse : v = AutomockInput(s, i)
    \/ \E s \in {<<>>, <<AttrMod("mock", FALSE)>>}, i \in ImplUniverse :
          v = AutomockInput(s, i)
    \/ \E s \in AttrStreams, i \in OtherItemUniverse \cup {Unparsable} :
          v = AutomockInput(s, i)

(***************************************************************************)
(* do_automock.  One action for each way through it.                       *)
(***************************************************************************)
\* err.to_compile_error(): the tokens of a compile_error! invocation, which
\* the compiler reports as one diagnostic
ToCompileError(msg) == [kind |-> "CompileError", msg |-> msg]

Init ==
    /\ pc = "start"
    /\ attrs = EmptyAttrs
    /\ IsAutomockInput(input)
    /\ output = NoOutput
    /\ diags = <<>>
    /\ mock = NoMock
    /\ mutex = NoMutexes
    /\ threads = NoThreads

\* the state when the strategy answered r
Finish(r) ==
    /\ pc' = IF r.panicked THEN "panicked" ELSE "returned"
    /\ output' = r.tokens
    /\ diags' = diags \o r.diags
    /\ mock' = r.mock
    /\ UNCHANGED <<input, mutex, threads>>

Starting == pc = "start" /\ input.fn = "do_automock"

AttrsParseError ==
    /\ Starting
    /\ LET parsed == AttrsParse(input.attr_stream) IN
       /\ ~parsed.ok
       /\ Finish(Returned(ToCompileError("expected one of: mod, type"),
                          parsed.diags, NoMock))
       /\ UNCHANGED attrs

\* a mutant of ItemParseError: the item is parsed before the attributes
ItemParseError_first ==
    /\ Starting
    /\ LET parsed == AttrsParse(input.attr_stream) IN
       /\ input.item.kind = "Unparsable"
       /\ attrs' = parsed.value
       /\ Finish(Returned(ToCompileError("expected item"), parsed.diags, NoMock))

ItemParseError ==
    /\ Starting
    /\ LET parsed == AttrsParse(input.attr_stream) IN
       /\ parsed.ok
       /\ input.item.kind = "Unparsable"
       /\ attrs' = parsed.value
       /\ Finish(Returned(ToCompileError("expected item"), parsed.diags, NoMock))

\* both streams parsed, and the item is of this kind
Parsed(kind) ==
    /\ Starting
    /\ AttrsParse(input.attr_stream).ok
    /\ input.item.kind = kind
    /\ attrs' = AttrsParse(input.attr_stream).value

\* the strategy's answer, after the diagnostics of Attrs::parse
AfterParse(r) == [r EXCEPT !.diags = AttrsParse(input.attr_stream).diags \o @]

MockImpl ==
    /\ Parsed("Impl")
    /\ Finish(AfterParse(mock_impl(input.item)))

MockForeign ==
    /\ Parsed("ForeignMod")
    /\ Finish(AfterParse(mock_foreign(AttrsParse(input.attr_stream).value, input.item)))

\* a mutant of MockModule: a rename directive names the module that
\* mock_module returns
MockModule_renamed ==
    /\ Parsed("Mod")
    /\ LET a == AttrsParse(input.attr_stream).value
           r == mock_module(input.item)
       IN Finish(AfterParse(
              IF a.modname.kind = "Some"
              THEN [r EXCEPT !.tokens.ident = a.modname.value]
              ELSE r))

MockModule ==
    /\ Parsed("Mod")
    /\ Finish(AfterParse(mock_module(input.item)))

MockTrait ==
    /\ Parsed("Trait")
    /\ Finish(AfterParse(mock_trait(AttrsParse(input.attr_stream).value, input.item)))

UnsupportedItem ==
    /\ Starting
    /\ LET parsed == AttrsParse(input.attr_stream) IN
       /\ parsed.ok
       /\ input.item.kind \notin {"Unparsable", "Impl", "ForeignMod", "Mod", "Trait"}
       /\ attrs' = parsed.value
       /\ Finish(Returned(EmptyTokenStream,
                          compile_error(parsed.diags,
                              "#[automock] does not support this item type"),
                          NoMock))

Next ==
    \/ AttrsParseError
    \/ ItemParseError
    \/ MockImpl
    \/ MockForeign
    \/ MockModule
    \/ MockTrait
    \/ UnsupportedItem

Spec == Init /\ [][Next]_vars


(***************************************************************************)
(* Properties of do_automock.                                              *)
(***************************************************************************)
\* do_automock ended, by returning or by panicking
Ended == pc # "start" /\ input.fn = "do_automock"

\* the diagnostics of the invocation: those emitted through compile_error and
\* the one the returned compile_error! tokens make
DiagnosticCount == Len(diags) + (IF output.kind = "CompileError" THEN 1 ELSE 0)

\* mock_trait ran and handed a Mock to the builder
TraitMocked ==
    /\ Ended
    /\ input.item.kind = "Trait"
    /\ mock.kind = "Mock"

\* a named path `Self::X`, or a bound `Self::X`, with X a key
IsMappedSelfNode(a, n) ==
    \/ n.kind = "Path" /\ IsMappedSelfPath(a, n.path)
    \/ /\ n.kind \in {"TraitObject", "ImplTrait"}
       /\ \E i \in DOMAIN n.bounds :
             n.bounds[i].kind = "Trait" /\ IsMappedSelfPath(a, n.bounds[i].path)

\* the types of a method's signature: its value parameters and its return type
SignatureTypes(method) ==
    { method.sig.decl.inputs[i].ty :
        i \in { j \in DOMAIN method.sig.decl.inputs :
                  method.sig.decl.inputs[j].kind = "Captured" } }
    \cup (IF method.sig.decl.output.kind = "Default" THEN {} ELSE {method.sig.decl.output})

\* C2: after substitution no `Self::X` with X mapped remains in the type of a
\* value parameter or in the return type of any method of the trait, at any
\* nesting depth, generic arguments of named paths included.
C2_NoMappedSelfPathRemains ==
    TraitMocked =>
        \A i \in DOMAIN mock.traits[1].items :
            LET it == mock.traits[1].items[i] IN
            it.kind = "Method" =>
                \A ty \in SignatureTypes(it) :
                    ~AnyNode(ty, LAMBDA n : IsMappedSelfNode(attrs, n))

\* the associated-type items of the trait that the configuration leaves out
UnmappedTypeItems(a, items) ==
    { i \in DOMAIN items : items[i].kind = "Type" /\ items[i].ident \notin DOMAIN a.attrs }

\* C4: a trait with an associated type that has no entry in the configuration
\* makes mock_trait report a diagnostic and hand no trait that still holds the
\* unresolved item to the builder.
C4_UnmappedTypeFails ==
    (/\ Ended
     /\ input.item.kind = "Trait"
     /\ AttrsParse(input.attr_stream).ok
     /\ UnmappedTypeItems(attrs, input.item.items) # {})
    => /\ diags # <<>>
       /\ ~(/\ mock.kind = "Mock"
            /\ \E t \in DOMAIN mock.traits :
                  UnmappedTypeItems(attrs, mock.traits[t].items) # {})

\* the name of a trait item
ItemName(it) == IF it.kind = "Method" THEN it.sig.ident ELSE it.ident

\* C5: every associated-type item whose identifier is a key has, after
\* substitute_types, the mapped type as its default and no bounds, its other
\* fields as before; the trait has the same items in the same order.
C5_MappedTypeGetsDefault ==
    TraitMocked =>
        LET before == input.item.items
            after == mock.traits[1].items
        IN /\ Len(after) = Len(before)
           /\ \A i \in DOMAIN before :
                 /\ after[i].kind = before[i].kind
                 /\ ItemName(after[i]) = ItemName(before[i])
                 /\ (before[i].kind = "Type" /\ before[i].ident \in DOMAIN attrs.attrs) =>
                       /\ after[i].default = Some(attrs.attrs[before[i].ident])
                       /\ after[i].bounds = <<>>
                       /\ [after[i] EXCEPT !.default = None, !.bounds = <<>>]
                            = [before[i] EXCEPT !.default = None, !.bounds = <<>>]

\* a trait whose second item is the bounded associated type T, mapped: it came
\* out second, without bounds and with the mapped default
C5_Witness ==
    /\ TraitMocked
    /\ Len(input.item.items) = 2
    /\ input.item.items[2].kind = "Type"
    /\ input.item.items[2].bounds # <<>>
    /\ input.item.items[2].ident \in DOMAIN attrs.attrs
    /\ mock.traits[1].items[2].default = Some(U32)
    /\ mock.traits[1].items[2].bounds = <<>>

\* C7: an invocation that meets a failure emits exactly one diagnostic.
C7_ExactlyOneDiagnostic ==
    Ended /\ DiagnosticCount >= 1 => DiagnosticCount = 1

\* C8: when a step reported a failure the output holds no generated code and
\* no Mock was handed to the builder.
C8_NoCodeWithFailure ==
    Ended /\ DiagnosticCount >= 1 =>
        /\ output.kind \in {"Empty", "CompileError", "None"}
        /\ mock = NoMock

\* C9: do_automock returns, with generated declarations or a diagnostic, and
\* never panics.
C9_NeverPanics ==
    (input.fn = "do_automock" => pc \in {"start", "returned"})
    /\ (Ended => DiagnosticCount >= 1 \/ output.kind \in {"Mod", "MockGen"})

\* the impl block has a self-type path or a trait path of several segments
HasMultiSegmentPath(item) ==
    \/ item.self_ty.kind = "Path" /\ Len(item.self_ty.path.segments) # 1
    \/ /\ item.self_ty.kind = "Path"
       /\ item.trait_.kind = "Some"
       /\ Len(item.trait_.value.segments) # 1

\* C10: an impl block whose self-type path or trait path has more than one
\* segment ends with the resolver's diagnostic and no Mock built; a Mock that
\* is built is named after the only segment of the self-type path, and its
\* synthetic trait after the only segment of the trait path.
C10_MultiSegmentPathFails ==
    (Ended /\ input.item.kind = "Impl" /\ AttrsParse(input.attr_stream).ok) =>
        /\ HasMultiSegmentPath(input.item) =>
              /\ \E i \in DOMAIN diags : diags[i] =
                    "mockall_derive only supports structs defined in the current module"
              /\ mock = NoMock
              /\ output.kind # "MockGen"
        /\ mock.kind = "Mock" =>
              /\ input.item.self_ty.path.segments = 
                    <<Segment(mock.name, input.item.self_ty.path.segments[1].arguments)>>
              /\ \A t \in DOMAIN mock.traits :
                    input.item.trait_.value.segments =
                        <<Segment(mock.traits[t].ident,
                                  input.item.trait_.value.segments[1].arguments)>>

\* an impl of a trait named by a two-segment path, for a single-segment type
C10_Witness ==
    /\ Ended
    /\ input.item.kind = "Impl"
    /\ input.item.self_ty.kind = "Path"
    /\ Len(input.item.self_ty.path.segments) = 1
    /\ input.item.trait_.kind = "Some"
    /\ Len(input.item.trait_.value.segments) = 2
    /\ diags # <<>>
    /\ mock = NoMock


(***************************************************************************)
(* SpecRun: the module that mock_foreign or mock_module emitted, run by    *)
(* the threads of a test process.  Each thread calls the functions of the  *)
(* module one after the other; a function body is what mock_function and   *)
(* the checkpoint template wrote: `#obj.lock().unwrap()` followed by call, *)
(* checkpoint, or the construction of the guard that expect_ returns.      *)
(* A std::sync::Mutex is locked or not, and poisoned once a MutexGuard     *)
(* of it was dropped by a panicking thread.                                *)
(***************************************************************************)
\* most threads of the test process
MaxThreads == 2
\* most functions of a module that is run
MaxFns == 2

Threads == 1..MaxThreads

RunFnNames == <<"foo", "bar", "baz", "qux">>

RunFn(ident) == FnItem("pub", FALSE, ident, <<FnArgCaptured("x", U32)>>, FALSE, I64)

\* the declarations whose mocks are run: an extern block with a static and
\* k functions, and a module with one function and a const
RunUniverse ==
    { [kind |-> "ForeignMod",
       items |-> <<OtherItem("Static", "errno")>> \o [i \in 1..k |-> RunFn(RunFnNames[i])]] :
        k \in 1..MaxFns }
    \cup { [kind |-> "Mod", ident |-> "m",
            content |-> Some(<<RunFn("foo"), OtherItem("Const", "C")>>)] }

RunAttrs == <<AttrMod("mock", FALSE)>>

\* the functions and the expectation stores an emitted module defines
ModuleFns(m) == { m.body[i] : i \in { j \in DOMAIN m.body : m.body[j].kind = "Fn" } }

ModuleStores(m) ==
    { m.body[i].ident : i \in { j \in DOMAIN m.body : m.body[j].kind = "LazyStatic" } }

FnNamed(ident) == CHOOSE f \in ModuleFns(output) : f.ident = ident

\* a thread outside every function of the module, holding no guard
Idle == [pc |-> "idle", fn |-> "", i |-> 0, guards |-> {}]

\* ::std::sync::Mutex::new(..)
MutexNew == [locked |-> FALSE, poisoned |-> FALSE]

InitRun ==
    /\ pc = "returned"
    /\ attrs = AttrsParse(RunAttrs).value
    /\ \E item \in RunUniverse :
          /\ input = AutomockInput(RunAttrs, item)
          /\ LET r == IF item.kind = "ForeignMod"
                      THEN mock_foreign(AttrsParse(RunAttrs).value, item)
                      ELSE mock_module(item)
             IN /\ output = r.tokens
                /\ diags = r.diags
    /\ mock = NoMock
    /\ mutex = [s \in ModuleStores(output) |-> MutexNew]
    /\ threads = [t \in Threads |-> Idle]

\* the store that thread t locks, or has locked, in the function it runs
CurrentStore(t) == FnNamed(threads[t].fn).body.locks[threads[t].i]

\* the stores whose MutexGuard thread t owns
Held(t) ==
    threads[t].guards
    \cup (IF threads[t].pc = "locked" THEN {CurrentStore(t)} ELSE {})

\* Drop of the MutexGuards of the stores S: each is unlocked, and poisoned
\* when the thread that drops it is panicking
MutexGuardDrop(S, panicking) ==
    [s \in DOMAIN mutex |->
        IF s \in S
        THEN [locked |-> FALSE, poisoned |-> mutex[s].poisoned \/ panicking]
        ELSE mutex[s]]

\* thread t panics: unwinding drops every MutexGuard it owns
Unwind(t) ==
    /\ mutex' = MutexGuardDrop(Held(t), TRUE)
    /\ threads' = [threads EXCEPT ![t] = [Idle EXCEPT !.pc = "panicked"]]

RunFrame == UNCHANGED <<pc, attrs, input, output, diags, mock>>

\* thread t calls function f of the module
Call(t, f) ==
    /\ input.fn = "do_automock" /\ pc = "returned"
    /\ t \in DOMAIN threads
    /\ threads[t].pc = "idle"
    /\ f \in ModuleFns(output)
    /\ f.body.locks # <<>>
    /\ threads' = [threads EXCEPT ![t].pc = "lock", ![t].fn = f.ident, ![t].i = 1]
    /\ UNCHANGED mutex
    /\ RunFrame

\* `#obj.lock().unwrap()` on a mutex that is free: the thread owns the guard,
\* or, the mutex being poisoned, lock() answers Err and unwrap() panics
Lock(t) ==
    /\ t \in DOMAIN threads
    /\ threads[t].pc = "lock"
    /\ ~mutex[CurrentStore(t)].locked
    /\ IF mutex[CurrentStore(t)].poisoned
       THEN Unwind(t)
       ELSE /\ mutex' = [mutex EXCEPT ![CurrentStore(t)].locked = TRUE]
            /\ threads' = [threads EXCEPT ![t].pc = "locked"]
    /\ RunFrame

\* `#obj.lock()` by the thread that owns the guard of that mutex never
\* returns: it blocks for ever (no step) or it panics (this step)
RelockPanics(t) ==
    /\ t \in DOMAIN threads
    /\ threads[t].pc = "lock"
    /\ CurrentStore(t) \in threads[t].guards
    /\ Unwind(t)
    /\ RunFrame

\* a mutant of Return: expect_ drops the MutexGuard when it returns, and the
\* ExpectationGuard it hands out holds no lock
Return_guard_unlocks(t) ==
    /\ t \in DOMAIN threads
    /\ threads[t].pc = "locked"
    /\ LET body == FnNamed(threads[t].fn).body
           s == CurrentStore(t)
       IN /\ mutex' = MutexGuardDrop({s}, FALSE)
          /\ threads' = [threads EXCEPT ![t] =
                 IF body.op = "guard"
                 THEN [Idle EXCEPT !.guards = threads[t].guards \cup {s}]
                 ELSE IF body.op = "checkpoint" /\ threads[t].i < Len(body.locks)
                 THEN [@ EXCEPT !.pc = "lock", !.i = @ + 1]
                 ELSE [Idle EXCEPT !.guards = threads[t].guards]]
    /\ RunFrame

\* the locked operation returns: call and checkpoint drop the guard at the
\* end of their statement, checkpoint goes on to its next statement, and
\* expect_ hands the guard to its caller inside the ExpectationGuard
Return(t) ==
    /\ t \in DOMAIN threads
    /\ threads[t].pc = "locked"
    /\ LET body == FnNamed(threads[t].fn).body
           s == CurrentStore(t)
       IN CASE body.op = "guard" ->
                 /\ threads' = [threads EXCEPT ![t] =
                        [Idle EXCEPT !.guards = threads[t].guards \cup {s}]]
                 /\ UNCHANGED mutex
            [] body.op = "call" ->
                 /\ threads' = [threads EXCEPT ![t] =
                        [Idle EXCEPT !.guards = threads[t].guards]]
                 /\ mutex' = MutexGuardDrop({s}, FALSE)
            [] body.op = "checkpoint" ->
                 /\ threads' = [threads EXCEPT ![t] =
                        IF threads[t].i < Len(body.locks)
                        THEN [@ EXCEPT !.pc = "lock", !.i = @ + 1]
                        ELSE [Idle EXCEPT !.guards = threads[t].guards]]
                 /\ mutex' = MutexGuardDrop({s}, FALSE)
    /\ RunFrame

\* Expectations::call finds no matching expectation, or
\* Expectations::checkpoint finds one unsatisfied: it panics under the lock
Panics(t) ==
    /\ t \in DOMAIN threads
    /\ threads[t].pc = "locked"
    /\ FnNamed(threads[t].fn).body.op \in {"call", "checkpoint"}
    /\ Unwind(t)
    /\ RunFrame

\* the caller of expect_ drops the ExpectationGuard of store s
DropGuard(t, s) ==
    /\ t \in DOMAIN threads
    /\ threads[t].pc = "idle"
    /\ s \in threads[t].guards
    /\ threads' = [threads EXCEPT ![t].guards = @ \ {s}]
    /\ mutex' = MutexGuardDrop({s}, FALSE)
    /\ RunFrame

NextRun ==
    \/ \E t \in Threads, f \in ModuleFns(output) : Call(t, f)
    \/ \E t \in Threads : Lock(t)
    \/ \E t \in Threads : RelockPanics(t)
    \/ \E t \in Threads : Return(t)
    \/ \E t \in Threads : Panics(t)
    \/ \E t \in Threads, s \in DOMAIN mutex : DropGuard(t, s)

SpecRun == InitRun /\ [][NextRun]_vars


(***************************************************************************)
(* Properties of the emitted module at run time.                           *)
(***************************************************************************)
\* thread t is inside a critical section on store s: it dispatches a call,
\* checkpoints the store, or holds the guard that expect_ returned
InCriticalSection(t, s) == s \in Held(t)

\* at most one thread is inside a critical section on each store
MutualExclusion ==
    \A s \in DOMAIN mutex :
        /\ Cardinality({t \in Threads : InCriticalSection(t, s)}) <= 1
        /\ mutex[s].locked <=> \E t \in Threads : InCriticalSection(t, s)

\* thread t is at `#obj.lock()` of store s
WaitingOn(t, s) == threads[t].pc = "lock" /\ CurrentStore(t) = s

\* while a guard of store s is alive, no thread that waits for s gets the
\* lock
BlockedWhileGuardAlive ==
    \A t \in Threads, u \in Threads, s \in DOMAIN mutex :
        s \in threads[u].guards /\ WaitingOn(t, s) => ~ENABLED Lock(t)

\* a thread that waits for a store no thread is in a critical section on
\* gets past `#obj.lock()`
ProceedsOnceReleased ==
    \A t \in Threads, s \in DOMAIN mutex :
        (WaitingOn(t, s) /\ \A u \in Threads : ~InCriticalSection(u, s))
            => ENABLED Lock(t)

\* C11: the critical sections on one store are mutually exclusive across the
\* threads (dispatching a call, holding the guard of expect_, checkpointing);
\* while a guard is alive no call gets past the acquisition of the lock, and
\* a waiting call gets past it once the guard is released.
C11_StoreCriticalSectionsExclusive ==
    input.fn = "do_automock" /\ pc = "returned" /\ threads # NoThreads =>
        /\ MutualExclusion
        /\ BlockedWhileGuardAlive
        /\ ProceedsOnceReleased

\* one thread holds the guard of expect_foo while the other, inside foo, waits
\* for foo_expectation
C11_Witness ==
    /\ input.fn = "do_automock" /\ pc = "returned" /\ threads # NoThreads
    /\ \E t \in Threads, u \in Threads :
          /\ t # u
          /\ "foo_expectation" \in threads[u].guards
          /\ threads[t].fn = "foo"
          /\ WaitingOn(t, "foo_expectation")
          /\ ~ENABLED Lock(t)

\* the module is being run
Running == input.fn = "do_automock" /\ pc = "returned" /\ threads # NoThreads

\* a thread inside checkpoint owns the guard of the store of its current
\* statement at most
CheckpointHoldsOneLock ==
    \A t \in Threads :
        threads[t].fn = "checkpoint" /\ threads[t].pc \in {"lock", "locked"} =>
            /\ Held(t) \subseteq {CurrentStore(t)}
            /\ threads[t].i \in 1..Len(FnNamed("checkpoint").body.locks)

\* no thread owns the guards of two stores at once
LocksNeverNested == \A t \in Threads : Cardinality(Held(t)) <= 1

\* every thread of W waits for a store whose guard a thread of W holds: none
\* of them ever gets its lock
WaitCycle(W) ==
    /\ W # {}
    /\ \A u \in W :
          /\ threads[u].pc = "lock"
          /\ \E v \in W : CurrentStore(u) \in threads[v].guards

NoThreadBlockedForever == \A W \in SUBSET Threads : ~WaitCycle(W)

\* C12: whatever the threads call (mocked functions, expect_ accessors whose
\* guards they drop later, checkpoint), checkpoint holds one store lock at a
\* time, no thread holds two store locks, and no thread waits for ever for a
\* store lock.
C12_NoDeadlock ==
    Running =>
        /\ CheckpointHoldsOneLock
        /\ LocksNeverNested
        /\ NoThreadBlockedForever


(***************************************************************************)
(* Properties of the module that mock_foreign and mock_module emit.        *)
(***************************************************************************)
\* the items of the extern block or of the module given to do_automock
DeclaredItems ==
    IF input.item.kind = "ForeignMod" THEN input.item.items
    ELSE IF input.item.content.kind = "Some" THEN input.item.content.value
    ELSE <<>>

IsFnItem(item) == item.kind = "Fn"

\* mock_foreign or mock_module returned a module
ModuleEmitted ==
    /\ Ended
    /\ input.item.kind \in {"ForeignMod", "Mod"}
    /\ output.kind = "Mod"

\* the functions named checkpoint that the emitted module ends with
EmittedCheckpoint == output.body[Len(output.body)]

\* C13: the emitted checkpoint function has one lock-and-checkpoint statement
\* for each function item of the declaration, the i-th on the store of the
\* i-th function in declaration order, none twice; the other items add none.
C13_CheckpointInDeclarationOrder ==
    ModuleEmitted =>
        LET fns == SelectSeq(DeclaredItems, IsFnItem)
            cp == EmittedCheckpoint
        IN /\ cp.kind = "Fn" /\ cp.ident = "checkpoint" /\ cp.body.op = "checkpoint"
           /\ Len(cp.body.locks) = Len(fns)
           /\ \A i \in DOMAIN fns : cp.body.locks[i] = fns[i].ident \o "_expectation"
           /\ \A i, j \in DOMAIN cp.body.locks :
                 cp.body.locks[i] = cp.body.locks[j] => i = j

\* a module of two functions, the second of them `bar`: checkpoint locks the
\* store of the first and then bar_expectation
C13_Witness ==
    /\ ModuleEmitted
    /\ input.item.kind = "Mod"
    /\ Len(DeclaredItems) = 2
    /\ \A i \in 1..2 : IsFnItem(DeclaredItems[i])
    /\ DeclaredItems[2].ident = "bar"
    /\ Len(EmittedCheckpoint.body.locks) = 2
    /\ EmittedCheckpoint.body.locks[2] = "bar_expectation"


(***************************************************************************)
(* Properties of mock_impl.                                                *)
(***************************************************************************)
\* mock_impl ran and handed a Mock to the builder
ImplMocked ==
    /\ Ended
    /\ input.item.kind = "Impl"
    /\ mock.kind = "Mock"

IsMethodItem(item) == item.kind = "Method"

\* the signatures of the method items of a sequence of impl or trait items
MethodSigs(items) ==
    LET ms == SelectSeq(items, IsMethodItem) IN [i \in DOMAIN ms |-> ms[i].sig]

\* C14: the Mock of an impl of a trait has no direct method and one synthetic
\* trait, named after the only segment of the trait path, that holds all the
\* methods of the impl in source order; the Mock of an inherent impl has all
\* the methods as direct methods in source order and no synthetic trait.
C14_ImplMethodsRoutedExclusively ==
    ImplMocked =>
        IF input.item.trait_.kind = "Some"
        THEN /\ mock.methods = <<>>
             /\ Len(mock.traits) = 1
             /\ Len(input.item.trait_.value.segments) = 1
             /\ mock.traits[1].ident = input.item.trait_.value.segments[1].ident
             /\ \A i \in DOMAIN mock.traits[1].items : IsMethodItem(mock.traits[1].items[i])
             /\ MethodSigs(mock.traits[1].items) = MethodSigs(input.item.items)
        ELSE /\ mock.traits = <<>>
             /\ \A i \in DOMAIN mock.methods : IsMethodItem(mock.methods[i])
             /\ MethodSigs(mock.methods) = MethodSigs(input.item.items)

\* `impl Tr for Foo` with the methods foo and bar, in this order
C14_Witness ==
    /\ ImplMocked
    /\ input.item.trait_ = Some(IdentPath("Tr"))
    /\ Len(MethodSigs(input.item.items)) = 2
    /\ mock.methods = <<>>
    /\ mock.traits[1].ident = "Tr"
    /\ mock.traits[1].items[1].sig.ident = "foo"
    /\ mock.traits[1].items[2].sig.ident = "bar"


\* the generic arguments of the last segment of the trait path of the impl
TraitPathArguments ==
    input.item.trait_.value.segments[Len(input.item.trait_.value.segments)].arguments

\* C15: the synthetic trait of an impl of a trait has the generics of the impl
\* filtered against the generic arguments of the last segment of the trait
\* path (none when the trait is named without arguments), and the Mock has
\* the generics of the impl whole.
C15_SyntheticTraitGenericsFiltered ==
    ImplMocked /\ input.item.trait_.kind = "Some" =>
        /\ mock.generics = input.item.generics
        /\ mock.traits[1].generics =
              filter_generics(input.item.generics, TraitPathArguments).generics
        /\ TraitPathArguments = PathArgumentsNone =>
              mock.traits[1].generics = GenericsDefault
        /\ (TraitPathArguments.kind = "AngleBracketed" /\ ~input.item.generics.where_clause) =>
              IsOrderedSubseq(mock.traits[1].generics.params, input.item.generics.params)

\* `impl<A: Copy, B> Tr for Foo<A>`: the Mock is generic over A and B, the
\* synthetic trait Tr has no generics
C15_Witness ==
    /\ ImplMocked
    /\ input.item.trait_ = Some(IdentPath("Tr"))
    /\ input.item.self_ty.path.segments[1].arguments # PathArgumentsNone
    /\ Len(input.item.generics.params) = 2
    /\ mock.generics = input.item.generics
    /\ mock.traits[1].generics = GenericsDefault


(***************************************************************************)
(* Properties of the dispatch of do_automock.                              *)
(***************************************************************************)
\* do_automock stopped at a parse error: it returned the error's tokens and
\* did nothing after the parse of the attributes
StoppedAtParseError(msg) ==
    /\ pc = "returned"
    /\ output = ToCompileError(msg)
    /\ diags = AttrsParse(input.attr_stream).diags
    /\ mock = NoMock

\* what each strategy, and no other, leaves behind
RoutedAs(kind) ==
    CASE kind = "Impl" ->
            /\ output.kind \in {"MockGen", "Empty", "None"}
            /\ output.kind = "MockGen" <=> mock # NoMock
            /\ mock # NoMock =>
                  /\ output = MockGen(mock)
                  /\ mock.vis = "pub"
                  /\ mock.generics = input.item.generics
      [] kind = "ForeignMod" ->
            /\ mock = NoMock
            /\ \/ pc = "panicked"
               \/ output.kind = "Mod" /\ output.ident = attrs.modname.value
      [] kind = "Mod" ->
            /\ mock = NoMock
            /\ pc = "returned"
            /\ output.kind = "Mod" /\ output.ident = "mock_" \o input.item.ident
      [] kind = "Trait" ->
            /\ pc = "returned"
            /\ output = MockGen(mock)
            /\ mock.name = input.item.ident /\ mock.vis = input.item.vis
            /\ mock.methods = <<>> /\ Len(mock.traits) = 1
            /\ mock.traits[1].ident = input.item.ident
      [] OTHER ->
            /\ pc = "returned"
            /\ output = EmptyTokenStream
            /\ mock = NoMock
            /\ diags = Append(AttrsParse(input.attr_stream).diags,
                              "#[automock] does not support this item type")

\* C16: do_automock parses the configuration first and the declaration
\* second and returns the error of the first parse that fails, doing nothing
\* more; a parsed declaration goes to the one strategy of its kind (impl block,
\* extern block, module, trait), and any other kind of declaration gets the
\* unsupported-item diagnostic and an empty output.
C16_DispatchByKind ==
    Ended =>
        IF ~AttrsParse(input.attr_stream).ok
        THEN StoppedAtParseError("expected one of: mod, type")
        ELSE IF input.item.kind = "Unparsable"
        THEN StoppedAtParseError("expected item")
        ELSE RoutedAs(input.item.kind)

\* neither stream parses: the error returned is the one of the attributes
C16_Witness ==
    /\ Ended
    /\ ~AttrsParse(input.attr_stream).ok
    /\ input.item.kind = "Unparsable"
    /\ output = ToCompileError("expected one of: mod, type")


(***************************************************************************)
(* Properties of mock_module, item by item.                                *)
(***************************************************************************)
\* mock_module returned a module
ModuleMocked ==
    /\ Ended
    /\ input.item.kind = "Mod"
    /\ output.kind = "Mod"

IgnoredKinds == {"ExternCrate", "Use", "Impl"}

CopiedKinds == {"Static", "Const", "Type", "TraitAlias"}

\* the kinds of item that make synthesis fail
FailingKinds ==
    {"Mod", "ForeignMod", "Struct", "Enum", "Union", "Trait", "Macro", "Macro2",
     "Existential", "Verbatim"}

\* kind and name of an item of the output
Shape(item) == <<item.kind, item.ident>>

\* the shapes that stand for function f in the output: its store, the mock
\* function and the expect_ accessor
FnShapes(f) ==
    << <<"LazyStatic", f.ident \o "_expectation">>,
       <<"Fn", f.ident>>,
       <<"Fn", "expect_" \o f.ident>> >>

\* the items of the output before the checkpoint function
EmittedItems == SubSeq(output.body, 1, Len(output.body) - 1)

\* the diagnostics of the strategy, those of Attrs::parse left out
StrategyDiags ==
    SubSeq(diags, Len(AttrsParse(input.attr_stream).diags) + 1, Len(diags))

\* the output holds, in source order, what Expected says of each item, a
\* copied item being the item itself, and one failure was raised for each
\* item that Fails
TreatedByKind(Expected(_), Fails(_)) ==
    /\ [i \in DOMAIN EmittedItems |-> Shape(EmittedItems[i])]
          = Flatten([i \in DOMAIN DeclaredItems |-> Expected(DeclaredItems[i])])
    /\ \A i \in DOMAIN EmittedItems :
          EmittedItems[i].kind \in CopiedKinds =>
              \E j \in DOMAIN DeclaredItems : EmittedItems[i] = DeclaredItems[j]
    /\ Len(StrategyDiags) =
          Cardinality({i \in DOMAIN DeclaredItems : Fails(DeclaredItems[i])})

\* what the claim says of an item: every function is replaced by its three
\* items
ExpectedOfItem(item) ==
    CASE item.kind \in IgnoredKinds -> <<>>
      [] item.kind \in CopiedKinds -> <<Shape(item)>>
      [] item.kind = "Fn" -> FnShapes(item)
      [] OTHER -> <<>>

FailsByKind(item) == item.kind \in FailingKinds

\* C17 as stated: for every sequence of items, `use`, `extern crate` and impl
\* items add nothing and raise no failure; static, const, type-alias and
\* trait-alias items are copied unchanged in source order; every function
\* item is replaced by a store, a mock function and an expect_ accessor;
\* nested modules, extern blocks, structs, enums, unions, traits and macro
\* items raise a failure.
C17_ModuleItemsByKind ==
    ModuleMocked => TreatedByKind(ExpectedOfItem, FailsByKind)

\* as ExpectedOfItem, but a variadic function adds nothing
ExpectedOfItemVariadic(item) ==
    IF item.kind = "Fn" /\ item.decl.variadic THEN <<>> ELSE ExpectedOfItem(item)

FailsByKindVariadic(item) ==
    FailsByKind(item) \/ (item.kind = "Fn" /\ item.decl.variadic)

\* C17 amended: as stated, except that only a function item that is not
\* variadic is replaced by the three items; a variadic function item raises a
\* failure and adds nothing to the items of the module.
C17_ModuleItemsByKindVariadic ==
    ModuleMocked => TreatedByKind(ExpectedOfItemVariadic, FailsByKindVariadic)

\* a module of a variadic function and a static: one failure, and the static
\* alone before checkpoint
C17_Witness ==
    /\ ModuleMocked
    /\ Len(DeclaredItems) = 2
    /\ DeclaredItems[1].kind = "Fn" /\ DeclaredItems[1].decl.variadic
    /\ DeclaredItems[2].kind = "Static"
    /\ EmittedItems = <<DeclaredItems[2]>>
    /\ StrategyDiags = <<"Mockall does not support variadic extern functions">>


(***************************************************************************)
(* Properties of Attrs::parse, seen through do_automock.                   *)
(***************************************************************************)
\* a bodiless `mod <ident>;` or a `type <ident> = <type>;`
LegalDirective(d) ==
    \/ d.kind = "Mod" /\ ~d.content
    \/ d.kind = "Type" /\ d.default.kind = "Some"

\* Attrs::parse answered Ok and do_automock went on with the Attrs value
YieldedConfiguration ==
    /\ AttrsParse(input.attr_stream).ok
    /\ attrs = AttrsParse(input.attr_stream).value
    /\ output # ToCompileError("expected one of: mod, type")

\* C18: the Attribute Parser yields a Configuration if and only if every
\* directive is a bodiless `mod <ident>;` or a `type <ident> = <type>;`; a
\* `mod` with a body, a `type` without a default and any other token shape
\* make it fail, and a `mod` directive with a body does not set the rename
\* identifier.
C18_ConfigurationIffLegalDirectives ==
    Ended =>
        /\ YieldedConfiguration <=>
              \A i \in DOMAIN input.attr_stream : LegalDirective(input.attr_stream[i])
        /\ (\A i \in DOMAIN input.attr_stream :
               input.attr_stream[i].kind = "Mod" => input.attr_stream[i].content)
           => attrs.modname = None


(***************************************************************************)
(* Properties of the items that mock_impl keeps.                           *)
(***************************************************************************)
\* the methods of the Mock of an impl, wherever they were routed
KeptMethods == IF mock.traits # <<>> THEN mock.traits[1].items ELSE mock.methods

IsUnsupportedImplItemDiag(msg) == msg = "This impl item is not yet supported by MockAll"

IsOtherImplItem(item) == item.kind \notin {"Const", "Method"}

\* C19: the Mock of an impl holds exactly the method items of the impl, in
\* source order, each with its signature unchanged and without a body; a
\* const item is dropped without a diagnostic, and every item of another kind
\* (associated type, macro, verbatim, existential) is dropped with one.
C19_ImplKeepsMethodItems ==
    ImplMocked =>
        LET meths == SelectSeq(input.item.items, IsMethodItem)
        IN /\ Len(KeptMethods) = Len(meths)
           /\ \A i \in DOMAIN meths :
                 /\ KeptMethods[i].kind = "Method"
                 /\ KeptMethods[i].sig = meths[i].sig
                 /\ ~KeptMethods[i].default
                 /\ KeptMethods[i].semi_token
           /\ Len(SelectSeq(diags, IsUnsupportedImplItemDiag))
                 = Len(SelectSeq(input.item.items, IsOtherImplItem))

\* an impl of an associated type and a method: the method alone is kept, and
\* the type was reported
C19_Witness ==
    /\ ImplMocked
    /\ Len(input.item.items) = 2
    /\ input.item.items[1].kind = "Type"
    /\ IsMethodItem(input.item.items[2])
    /\ Len(KeptMethods) = 1
    /\ KeptMethods[1].sig = input.item.items[2].sig
    /\ \E i \in DOMAIN diags : IsUnsupportedImplItemDiag(diags[i])


\* C20: every expectation store that a function of the emitted module locks,
\* checkpoint above all, is defined in that module, also when a function item
\* is variadic and mock_function emits nothing for it.
C20_CheckpointLocksDefinedStores ==
    ModuleEmitted =>
        \A f \in ModuleFns(output) :
            \A i \in DOMAIN f.body.locks : f.body.locks[i] \in ModuleStores(output)


(***************************************************************************)
(* Properties of the names in the emitted module.                          *)
(***************************************************************************)
IsModDirective(d) == d.kind = "Mod"

\* the `mod` directives of the attribute stream, in order
ModDirectives == SelectSeq(input.attr_stream, IsModDirective)

\* C21: mock_module names its module `mock_<identifier of the source module>`
\* and emits the same items whatever the configuration says (a `mod` rename
\* directive and `type` directives change nothing); mock_foreign names its
\* module with the rename identifier, the one of the last `mod` directive.
C21_ModuleNamedAfterSource ==
    /\ ModuleMocked =>
          /\ output.ident = "mock_" \o input.item.ident
          /\ \A d \in Range(input.attr_stream) :
                d.kind = "Mod" => output.ident # d.ident
          /\ TreatedByKind(ExpectedOfItemVariadic, FailsByKindVariadic)
    /\ (ModuleEmitted /\ input.item.kind = "ForeignMod") =>
          /\ ModDirectives # <<>>
          /\ output.ident = ModDirectives[Len(ModDirectives)].ident

\* `#[automock(mod mock;)] mod foo { .. }` came out as `mod mock_foo`
C21_Witness ==
    /\ ModuleMocked
    /\ input.attr_stream = <<AttrMod("mock", FALSE)>>
    /\ attrs.modname = Some("mock")
    /\ input.item.ident = "foo"
    /\ output.ident = "mock_foo"

\* the names of the items of a sequence are pairwise distinct
DistinctNames(items) ==
    \A i, j \in DOMAIN items : items[i].ident = items[j].ident => i = j

\* C22: in the module that mock_foreign or mock_module emits, the names of
\* the items (stores, mock functions, expect_ accessors, the checkpoint
\* function, the copied statics, consts and types) are pairwise distinct,
\* for every input whose own item names are pairwise distinct.
C22_EmittedNamesDistinct ==
    (ModuleEmitted /\ DistinctNames(DeclaredItems)) => DistinctNames(output.body)

(***************************************************************************)
(* Properties of a store after a panic under its lock.                     *)
(***************************************************************************)
\* thread t gets past `#obj.lock().unwrap()` and owns the guard
Enters(t) == Lock(t) /\ threads'[t].pc = "locked"

\* a thread panicked while it owned the guard of store s
PanickedUnderLock(s) == mutex[s].poisoned

\* C23: after a call of f or a checkpoint panicked while the lock of a store
\* was held, a later call of f, of expect_f or of checkpoint that finds the
\* store free acquires its lock and proceeds, instead of panicking at the
\* acquisition.
C23_StoreUsableAfterPanic ==
    Running =>
        \A t \in Threads, s \in DOMAIN mutex :
            (PanickedUnderLock(s) /\ WaitingOn(t, s) /\ ~mutex[s].locked)
                => ENABLED Enters(t)

(***************************************************************************)
(* SpecTwice: substitute_type applied to a type expression and then to its *)
(* own result, under configurations whose mapped types hold Self paths.    *)
(***************************************************************************)
TwiceMappedTypes ==
    { U32, SelfU, SelfT, TypeElem("Slice", SelfU), TypeElem("Slice", U32),
      VecOf(SelfU) }

TwiceConfigs == UNION { [ks -> TwiceMappedTypes] : ks \in SUBSET Keys }

TwiceLeafTypes == { SelfT, SelfU, U32, VecOf(SelfT), TypeLeaf("Macro") }

TwiceWrap(S) ==
    { TypeElem("Reference", t) : t \in S }
    \cup { TypeTuple(<<t, SelfU>>) : t \in S }
    \cup { TypeBareFn(<<t>>, ReturnDefault) : t \in S }
    \cup { TypeBounds(k, bs) : k \in {"TraitObject", "ImplTrait"},
                               bs \in SeqsUpTo(BoundUniverse, 2) }

RECURSIVE TwiceTypesAt(_)
TwiceTypesAt(d) ==
    IF d = 0 THEN TwiceLeafTypes ELSE TwiceLeafTypes \cup TwiceWrap(TwiceTypesAt(d - 1))

InitTwice ==
    /\ pc = "start"
    /\ \E m \in TwiceConfigs : attrs = [attrs |-> m, modname |-> None]
    /\ \E t \in TwiceTypesAt(MaxDepth) : input = [fn |-> "substitute_type", ty |-> t]
    /\ output = NoOutput
    /\ diags = <<>>
    /\ mock = NoMock
    /\ mutex = NoMutexes
    /\ threads = NoThreads

\* substitute_type is applied to the type that its first application
\* returned; input.once keeps that type
SubstituteAgain ==
    /\ pc = "returned"
    /\ input.fn = "substitute_type"
    /\ LET r == substitute_type(attrs, output)
       IN /\ output' = r.ty
          /\ diags' = diags \o r.diags
    /\ input' = [fn |-> "substitute_type", ty |-> input.ty, once |-> output]
    /\ pc' = "again"
    /\ UNCHANGED <<attrs, mock, mutex, threads>>

NextTwice == SubstituteType \/ SubstituteAgain

SpecTwice == InitTwice /\ [][NextTwice]_vars

(***************************************************************************)
(* Properties of substitute_type applied twice.                            *)
(***************************************************************************)
SubstitutedTwice == pc = "again" /\ input.fn = "substitute_type"

RECURSIVE VisitedNodes(_)
\* the nodes of a type expression at which substitute_type is called: the
\* generic arguments of a named path are not among them
VisitedNodes(ty) ==
    {ty} \cup
    CASE ty.kind \in ElemKinds -> VisitedNodes(ty.elem)
      [] ty.kind = "Tuple" -> UNION { VisitedNodes(ty.elems[i]) : i \in DOMAIN ty.elems }
      [] ty.kind = "BareFn" ->
            UNION { VisitedNodes(ty.inputs[i]) : i \in DOMAIN ty.inputs }
            \cup (IF ty.output.kind = "Default" THEN {} ELSE VisitedNodes(ty.output))
      [] OTHER -> {}

\* the trait bounds of the visited trait-object and impl-trait nodes
VisitedBounds(ty) ==
    UNION { {n.bounds[i] : i \in {j \in DOMAIN n.bounds : n.bounds[j].kind = "Trait"}} :
            n \in {v \in VisitedNodes(ty) : v.kind \in {"TraitObject", "ImplTrait"}} }

MappedOf(a, path) == a.attrs[path.segments[2].ident]

\* the mapped types that one application to ty puts in the place of a
\* visited `Self::X` node
InsertedTypes(a, ty) ==
    { MappedOf(a, n.path) :
        n \in {v \in VisitedNodes(ty) : v.kind = "Path" /\ IsMappedSelfPath(a, v.path)} }

\* the bounds that one application to ty puts in the place of a visited
\* `Self::X` bound
InsertedBounds(a, ty) ==
    { BoundTrait(MappedOf(a, b.path).path) :
        b \in {v \in VisitedBounds(ty) :
                  IsMappedSelfPath(a, v.path) /\ MappedOf(a, v.path).kind = "Path"} }

\* the mapped type holds `Self::Y`, Y a key, somewhere
ContainsMappedSelf(a, m) == AnyNode(m, LAMBDA n : IsMappedSelfNode(a, n))

\* an application to the mapped type m replaces something in it: a visited
\* node `Self::Y` whose mapped type is not `Self::Y` itself, or a visited bound
\* `Self::Y` whose mapped type is another named path
ChangedByVisit(a, m) ==
    \/ \E n \in VisitedNodes(m) :
          n.kind = "Path" /\ IsMappedSelfPath(a, n.path) /\ MappedOf(a, n.path) # n
    \/ \E b \in VisitedBounds(m) :
          /\ IsMappedSelfPath(a, b.path)
          /\ MappedOf(a, b.path).kind = "Path"
          /\ MappedOf(a, b.path).path # b.path

BoundChangedByVisit(a, b) ==
    /\ IsMappedSelfPath(a, b.path)
    /\ MappedOf(a, b.path).kind = "Path"
    /\ MappedOf(a, b.path).path # b.path

\* the first application put the mapped type in the place of a `Self::X` root
\* as it is, without visiting it
InsertedVerbatim ==
    (input.ty.kind = "Path" /\ IsMappedSelfPath(attrs, input.ty.path))
        => input.once = MappedOf(attrs, input.ty.path)

\* C24 as stated: the mapped type is inserted as it is, and the second
\* application returns what the first returned exactly when no mapped type
\* that the traversal inserted holds a `Self::Y` with Y a key.
C24_TwiceEqualsOnceIffNoSelfInMapped ==
    SubstitutedTwice =>
        /\ InsertedVerbatim
        /\ (output = input.once) <=>
              /\ \A m \in InsertedTypes(attrs, input.ty) : ~ContainsMappedSelf(attrs, m)
              /\ \A b \in InsertedBounds(attrs, input.ty) : ~IsMappedSelfPath(attrs, b.path)

\* C24 amended: the mapped type is inserted as it is, and the second
\* application returns what the first returned exactly when no mapped type
\* that the traversal inserted holds, at a node or bound that the traversal
\* visits, a `Self::Y` that an application replaces by something else (Y a
\* key whose mapped type is not `Self::Y` itself and, for a bound, is a named
\* path).
C24_TwiceEqualsOnceIffMappedUnchanged ==
    SubstitutedTwice =>
        /\ InsertedVerbatim
        /\ (output = input.once) <=>
              /\ \A m \in InsertedTypes(attrs, input.ty) : ~ChangedByVisit(attrs, m)
              /\ \A b \in InsertedBounds(attrs, input.ty) : ~BoundChangedByVisit(attrs, b)

\* T is mapped to `Self::U` and U to u32: one application to `&Self::T` left
\* `&Self::U` and the second made it `&u32`
C24_Witness ==
    /\ SubstitutedTwice
    /\ attrs.attrs = [k \in Keys |-> IF k = "T" THEN SelfU ELSE U32]
    /\ input.ty = TypeElem("Reference", SelfT)
    /\ input.once = TypeElem("Reference", SelfU)
    /\ output = TypeElem("Reference", U32)

=============================================================================
